---- MODULE Spec2Model ----
(***************************************************************************)
(* A model of the cron scheduler of src/cron.go: the expression parser,    *)
(* the next-fire-time resolver (trigger.next), the job cache (job.next)    *)
(* and the concurrent scheduling engine (Scheduler).                       *)
(*                                                                         *)
(* Instants are whole seconds, held the way Go's time.Time holds them: a   *)
(* day count (day 0 is 1 January of year 1, the zero time.Time) and the    *)
(* second of that day.  The nanosecond of an instant is left out: the      *)
(* resolver copies it through on line 171 and drops it everywhere else.    *)
(*                                                                         *)
(* A value a function computes once and uses several times is handed to a  *)
(* second operator as a parameter (parse and parseFields, next and         *)
(* nextFromMonth, ...): the pair is one function of the source.            *)
(***************************************************************************)
EXTENDS Integers, Sequences, FiniteSets, Bags, TLC

(***************************************************************************)
(* Go's time package, as far as cron.go uses it.                           *)
(***************************************************************************)

\* time.Time{}: 1 January of year 1, 00:00:00.
ZeroTime == [d |-> 0, s |-> 0]

SecondsPerDay == 24 * 60 * 60

isLeap(year) == (year % 4 = 0 /\ year % 100 # 0) \/ year % 400 = 0

\* Days from 1 January of year 1 to 1 January of `year`.
daysSinceEpoch(year) ==
    365 * (year - 1) + ((year - 1) \div 4) - ((year - 1) \div 100) + ((year - 1) \div 400)

\* Days of `year` before the first of `month` (1..12).
daysBefore(year, month) ==
    <<0, 31, 59, 90, 120, 151, 181, 212, 243, 273, 304, 334>>[month]
        + (IF month >= 3 /\ isLeap(year) THEN 1 ELSE 0)

\* The instant of day `day` of month `month` (1..12) of `year`, `secs`
\* seconds after 00:00:00; day and secs may lie outside their usual ranges.
dateInMonth(year, month, day, secs) ==
    [d |-> daysSinceEpoch(year) + daysBefore(year, month) + (day - 1)
               + (secs \div SecondsPerDay),
     s |-> secs % SecondsPerDay]

\* time.Date(year, month, day, hour, min, sec, 0, time.Local): the values may
\* lie outside their usual ranges and are normalised (day 0 is the last day
\* of the month before, month 13 is January of the next year).
Date(year, month, day, hour, min, sec) ==
    dateInMonth(year + ((month - 1) \div 12), ((month - 1) % 12) + 1, day,
                hour * 3600 + min * 60 + sec)

\* The year and the day of the year (0-based) of the day that is r1 days
\* into a century that starts n100 centuries into a 400-year cycle, n400
\* cycles after day 0.
yearDayInCentury(n400, n100, r1) ==
    LET r2 == r1 % 1461
        n1 == IF r2 \div 365 = 4 THEN 3 ELSE r2 \div 365
    IN  [year |-> 400 * n400 + 100 * n100 + 4 * (r1 \div 1461) + n1 + 1,
         yday |-> r2 - 365 * n1]

\* The same for the day that is r0 days into the 400-year cycle.
yearDayInCycle(n400, r0, n100) == yearDayInCentury(n400, n100, r0 - 36524 * n100)

\* The year and the day of the year (0-based) of day count d.
yearDay(d) ==
    yearDayInCycle(d \div 146097, d % 146097,
                   IF (d % 146097) \div 36524 = 4 THEN 3 ELSE (d % 146097) \div 36524)

\* The month (1..12) holding 0-based day `yday` of `year`.
monthOfYday(year, yday) ==
    CHOOSE m \in 1..12 :
        /\ daysBefore(year, m) <= yday
        /\ (m = 12 \/ yday < daysBefore(year, m + 1))

\* Year(), Month(), Day(), Hour(), Minute(), Second() and Weekday() of t,
\* which lies in month mo of the year of yd.  Weekday: Sunday is 0; 1 January
\* of year 1 is a Monday.
civilInMonth(t, yd, mo) ==
    [year  |-> yd.year,
     month |-> mo,
     day   |-> yd.yday - daysBefore(yd.year, mo) + 1,
     hour  |-> t.s \div 3600,
     min   |-> (t.s % 3600) \div 60,
     sec   |-> t.s % 60,
     wd    |-> (t.d + 1) % 7]

civilInYear(t, yd) == civilInMonth(t, yd, monthOfYday(yd.year, yd.yday))

Civil(t) == civilInYear(t, yearDay(t.d))

Weekday(t) == (t.d + 1) % 7

\* t.Add(n * time.Second).
AddSeconds(t, n) ==
    [d |-> t.d + ((t.s + n) \div SecondsPerDay), s |-> (t.s + n) % SecondsPerDay]

\* AddDate of the instant whose civil fields are c.
addDateTo(c, months, days) ==
    Date(c.year, c.month + months, c.day + days, c.hour, c.min, c.sec)

\* t.AddDate(0, months, days).
AddDate(t, months, days) == addDateTo(Civil(t), months, days)

\* t.Before(u), t.After(u), t.Equal(u).
Before(t, u) == t.d < u.d \/ (t.d = u.d /\ t.s < u.s)

After(t, u) == Before(u, t)

Equal(t, u) == t.d = u.d /\ t.s = u.s

(***************************************************************************)
(* Strings.  A Go string is modelled as the sequence of its characters,    *)
(* each character a TLA+ string of length one.                             *)
(***************************************************************************)

Digits == <<"0", "1", "2", "3", "4", "5", "6", "7", "8", "9">>

IsDigit(c) == \E i \in 1..10 : Digits[i] = c

DigitValue(c) == (CHOOSE i \in 1..10 : Digits[i] = c) - 1

RECURSIVE DecimalValue(_)
DecimalValue(s) ==
    IF s = <<>> THEN 0
    ELSE 10 * DecimalValue(SubSeq(s, 1, Len(s) - 1)) + DigitValue(s[Len(s)])

\* The result of ParseUint for a string of digits of value v.
uintOf(s, v) ==
    IF Len(s) > 3 \/ v > 255 THEN [v |-> 255, err |-> TRUE] ELSE [v |-> v, err |-> FALSE]

\* strconv.ParseUint(s, 10, 8): a syntax error yields 0, a value that does
\* not fit 8 bits yields 255, both with an error.
ParseUint(s) ==
    IF s = <<>> \/ \E i \in 1..Len(s) : ~IsDigit(s[i])
    THEN [v |-> 0, err |-> TRUE]
    ELSE uintOf(s, DecimalValue(s))

\* strings.IndexByte(s, c): the 0-based index of the first c in s, or -1.
IndexByte(s, c) ==
    IF \E i \in 1..Len(s) : s[i] = c
    THEN (CHOOSE i \in 1..Len(s) : s[i] = c /\ \A k \in 1..(i - 1) : s[k] # c) - 1
    ELSE -1

\* strings.Split(s, sep) for a separator of one character found first at
\* 0-based index i (-1: not at all).
RECURSIVE Split(_, _)
splitAt(s, sep, i) ==
    IF i = -1 THEN <<s>>
    ELSE <<SubSeq(s, 1, i)>> \o Split(SubSeq(s, i + 2, Len(s)), sep)

Split(s, sep) == splitAt(s, sep, IndexByte(s, sep))

(***************************************************************************)
(* The expression parser.                                                  *)
(***************************************************************************)

maxDeep == 10

secField == "sec"

minField == "min"

hourField == "hour"

dayField == "day"

monField == "mon"

weekField == "week"

\* ranges[name]: the smallest and the largest value of a field.
ranges(name) ==
    CASE name = secField  -> <<0, 59>>
      [] name = minField  -> <<0, 59>>
      [] name = hourField -> <<0, 23>>
      [] name = dayField  -> <<1, 31>>
      [] name = monField  -> <<1, 12>>
      [] name = weekField -> <<0, 6>>

monsAlias ==
    { << <<"J", "A", "N">>, 1 >>,  << <<"F", "E", "B">>, 2 >>,
      << <<"M", "A", "R">>, 3 >>,  << <<"A", "P", "R">>, 4 >>,
      << <<"M", "A", "Y">>, 5 >>,  << <<"J", "U", "N">>, 6 >>,
      << <<"J", "U", "L">>, 7 >>,  << <<"A", "U", "G">>, 8 >>,
      << <<"S", "E", "P">>, 9 >>,  << <<"O", "C", "T">>, 10 >>,
      << <<"N", "O", "V">>, 11 >>, << <<"D", "E", "C">>, 12 >> }

weekAlias ==
    { << <<"S", "U", "N">>, 0 >>, << <<"M", "O", "N">>, 1 >>,
      << <<"T", "U", "E">>, 2 >>, << <<"W", "E", "D">>, 3 >>,
      << <<"T", "H", "U">>, 4 >>, << <<"F", "R", "I">>, 5 >>,
      << <<"S", "A", "T">>, 6 >> }

\* v, ok := alias[value]
AliasLookup(alias, value) ==
    IF \E p \in alias : p[1] = value
    THEN [v |-> (CHOOSE p \in alias : p[1] = value)[2], ok |-> TRUE]
    ELSE [v |-> 0, ok |-> FALSE]

\* A calculate closure: nil, or the rule it was built from and what the
\* closure captured (a, b).
NilCalc == [kind |-> "nil", a |-> 0, b |-> 0]

\* &field{name: name}
NewField(name) ==
    [name |-> name, isRange |-> FALSE, start |-> 0, end |-> 0,
     increment |-> 0, values |-> <<>>, calculate |-> NilCalc]

\* The result of checkAlias for a field with aliases, r the map lookup.
aliasNumber(r, num) ==
    IF r.ok THEN [v |-> r.v, err |-> FALSE] ELSE [v |-> num, err |-> TRUE]

\* checkAlias(str, value, f, &num): num is the number ParseUint left; the
\* result holds the number afterwards and whether an error is returned.
checkAlias(value, f, num) ==
    IF f.name = weekField THEN aliasNumber(AliasLookup(weekAlias, value), num)
    ELSE IF f.name = monField THEN aliasNumber(AliasLookup(monsAlias, value), num)
    ELSE [v |-> num, err |-> FALSE]

\* err != nil && checkAlias(str, value, f, &num) != nil, p the result of
\* ParseUint.
parsedOrAlias(p, value, f) == IF p.err THEN checkAlias(value, f, p.v) ELSE p

\* One bound of a range or one element of a list: ParseUint, and on its
\* error checkAlias.
ParseValue(value, f) == parsedOrAlias(ParseUint(value), value, f)

\* The body of parserRangeField: f0 is the field with isRange set, s0 and e0
\* the two bounds as parsed.
rangeFieldOf(min, max, f0, s0, e0) ==
    IF s0.err THEN [f |-> f0, err |-> "syntax"]
    ELSE IF s0.v < min \/ s0.v > max
    THEN [f |-> [f0 EXCEPT !.start = s0.v], err |-> "range"]
    ELSE IF e0.err THEN [f |-> [f0 EXCEPT !.start = s0.v], err |-> "syntax"]
    ELSE IF e0.v < min \/ e0.v > max
    THEN [f |-> [f0 EXCEPT !.start = s0.v, !.end = e0.v], err |-> "range"]
    ELSE IF s0.v > e0.v
    THEN [f |-> [f0 EXCEPT !.start = s0.v, !.end = e0.v], err |-> "reversed"]
    ELSE [f |-> [f0 EXCEPT !.start = s0.v, !.end = e0.v], err |-> ""]

\* trigger.parserRangeField(str, arr, f): the field as left behind, and the
\* error ("" is nil).
parserRangeField(arr, f) ==
    rangeFieldOf(ranges(f.name)[1], ranges(f.name)[2], [f EXCEPT !.isRange = TRUE],
                 ParseValue(arr[1], f), ParseValue(arr[2], f))

\* for i := start; i <= end; i += increment { values = append(values, i) }
RECURSIVE StepValues(_, _, _)
StepValues(i, end, increment) ==
    IF i > end THEN <<>> ELSE <<i>> \o StepValues(i + increment, end, increment)

\* The body of parserIncreaseField: given is arr[0] != "*", s0 and i0 are
\* the start and the increment as parsed.
increaseFieldOf(min, max, f0, given, s0, i0) ==
    IF given /\ s0.err THEN [f |-> f0, err |-> "syntax"]
    ELSE IF given /\ (s0.v < min \/ s0.v > max) THEN [f |-> f0, err |-> "range"]
    ELSE IF i0.err THEN [f |-> f0, err |-> "syntax"]
    ELSE IF i0.v = 0 THEN [f |-> f0, err |-> "increment"]
    ELSE IF i0.v < min \/ i0.v > max THEN [f |-> f0, err |-> "range"]
    ELSE [f |-> [f0 EXCEPT !.start = IF given THEN s0.v ELSE min,
                           !.end = max,
                           !.increment = i0.v,
                           !.values = StepValues(IF given THEN s0.v ELSE min, max, i0.v)],
          err |-> ""]

\* trigger.parserIncreaseField(str, arr, f)
parserIncreaseField(arr, f) ==
    increaseFieldOf(ranges(f.name)[1], ranges(f.name)[2], [f EXCEPT !.isRange = FALSE],
                    arr[1] # <<"*">>, ParseUint(arr[1]), ParseUint(arr[2]))

\* sort.Slice(values, func(i, j int) bool { return values[i] < values[j] })
RECURSIVE SortValues(_)
SortValues(values) ==
    IF values = <<>> THEN <<>>
    ELSE LET lo == CHOOSE i \in 1..Len(values) :
                       \A k \in 1..Len(values) : values[i] <= values[k]
         IN  <<values[lo]>> \o
             SortValues(SubSeq(values, 1, lo - 1) \o SubSeq(values, lo + 1, Len(values)))

\* The body of parserEnumField: p holds the elements as parsed; the first
\* element in error, if any, ends the parse.
enumFieldOf(min, max, f0, p) ==
    LET bad == {i \in 1..Len(p) : p[i].err \/ p[i].v < min \/ p[i].v > max}
    IN  IF bad # {}
        THEN [f |-> f0,
              err |-> IF p[CHOOSE i \in bad : \A k \in bad : i <= k].err
                      THEN "syntax" ELSE "range"]
        ELSE [f |-> [f0 EXCEPT !.values = SortValues([i \in 1..Len(p) |-> p[i].v])],
              err |-> ""]

\* trigger.parserEnumField(str, arr, f)
parserEnumField(arr, f) ==
    enumFieldOf(ranges(f.name)[1], ranges(f.name)[2], [f EXCEPT !.isRange = FALSE],
                [i \in 1..Len(arr) |-> ParseValue(arr[i], f)])

\* The branches every field shares: A-B, A/B and A,B,C.  "none" when the
\* token has none of the three separators.
parserCommon(s, f) ==
    IF IndexByte(s, "-") > -1 THEN parserRangeField(Split(s, "-"), f)
    ELSE IF IndexByte(s, "/") > -1 THEN parserIncreaseField(Split(s, "/"), f)
    ELSE IF IndexByte(s, ",") > -1 THEN parserEnumField(Split(s, ","), f)
    ELSE [f |-> f, err |-> "none"]

FullRange(f, start, end) == [f EXCEPT !.isRange = TRUE, !.start = start, !.end = end]

\* The loop body of trigger.parse for the second, minute and hour fields: c
\* is the outcome of the shared branches, p of ParseUint(str).
timeFieldOf(str, unit, f, c, p) ==
    IF str = <<"*">> THEN [f |-> FullRange(f, 0, ranges(unit)[2]), err |-> ""]
    ELSE IF c.err # "none" THEN c
    ELSE IF p.err THEN [f |-> f, err |-> "syntax"]
    ELSE IF p.v < 0 \/ p.v > 59 THEN [f |-> f, err |-> "range"]
    ELSE [f |-> FullRange(f, p.v, p.v), err |-> ""]

parserTimeField(str, unit) ==
    timeFieldOf(str, unit, NewField(unit), parserCommon(str, NewField(unit)), ParseUint(str))

\* A field whose value a calculate closure supplies.
Calculated(f, kind, a, b) ==
    [f |-> [f EXCEPT !.calculate = [kind |-> kind, a |-> a, b |-> b]], err |-> ""]

\* The body of parserDayField: c is the outcome of the shared branches, w the
\* index of 'W', p the outcome of ParseUint(s).
dayFieldOf(s, f, c, w, p) ==
    IF s = <<"*">> \/ s = <<"?">> THEN [f |-> FullRange(f, 1, 31), err |-> ""]
    ELSE IF c.err # "none" THEN c
    ELSE IF s = <<"L">> THEN Calculated(f, "dayL", 0, 0)
    ELSE IF s = <<"L", "W">> THEN Calculated(f, "dayLW", 0, 0)
    ELSE IF w > -1 THEN Calculated(f, "dayW", ParseUint(SubSeq(s, 1, w)).v, 0)
    ELSE IF p.v < 1 \/ p.v > 31 THEN [f |-> f, err |-> "range"]
    ELSE [f |-> FullRange(f, p.v, p.v), err |-> ""]

\* trigger.parserDayField(s)
parserDayField(s) ==
    dayFieldOf(s, NewField(dayField), parserCommon(s, NewField(dayField)),
               IndexByte(s, "W"), ParseUint(s))

\* The last branch of parserMonField and of parserWeekField: a number in
\* min..max or an alias; p is the outcome of ParseUint(s), a of the lookup.
numberOrAlias(f, p, a, min, max) ==
    IF p.err
    THEN IF a.ok THEN [f |-> FullRange(f, a.v, a.v), err |-> ""]
         ELSE [f |-> f, err |-> "alias"]
    ELSE IF p.v < min \/ p.v > max THEN [f |-> f, err |-> "range"]
    ELSE [f |-> FullRange(f, p.v, p.v), err |-> ""]

\* The body of parserMonField: c is the outcome of the shared branches.
monFieldOf(s, f, c) ==
    IF s = <<"*">> THEN [f |-> FullRange(f, 1, 12), err |-> ""]
    ELSE IF c.err # "none" THEN c
    ELSE numberOrAlias(f, ParseUint(s), AliasLookup(monsAlias, s), 1, 12)

\* trigger.parserMonField(s)
parserMonField(s) ==
    monFieldOf(s, NewField(monField), parserCommon(s, NewField(monField)))

\* The 'L' branch of parserWeekField: pl is the outcome of
\* ParseUint(s[:index]).
weekLastOf(s, f, pl) ==
    IF s = <<"L">> THEN Calculated(f, "weekL", 6, 0)
    ELSE IF pl.err THEN [f |-> f, err |-> "syntax"]
    ELSE IF pl.v < 0 \/ pl.v > 6 THEN [f |-> f, err |-> "range"]
    ELSE Calculated(f, "weekL", pl.v, 0)

\* The '#' branch of parserWeekField: pd is the weekday and pn the week
\* number as parsed.
weekNthOf(f, pd, pn) ==
    IF pd.err THEN [f |-> f, err |-> "syntax"]
    ELSE IF pd.v < 0 \/ pd.v > 6 THEN [f |-> f, err |-> "range"]
    ELSE IF pn.err THEN [f |-> f, err |-> "syntax"]
    ELSE IF pn.v < 1 \/ pn.v > 4 THEN [f |-> f, err |-> "range"]
    ELSE Calculated(f, "weekNth", pn.v, pd.v)

\* The body of parserWeekField: arr is the expression split at its blanks, c
\* the outcome of the shared branches, l and h the indexes of 'L' and '#'.
weekFieldOf(s, arr, f, c, l, h) ==
    IF s = <<"*">> \/ s = <<"?">> THEN [f |-> FullRange(NewField(""), 0, 6), err |-> ""]
    ELSE IF arr[4] # <<"*">> /\ arr[4] # <<"?">> THEN [f |-> f, err |-> "exclusive"]
    ELSE IF c.err # "none" THEN c
    ELSE IF l > -1 THEN weekLastOf(s, f, ParseUint(SubSeq(s, 1, l)))
    ELSE IF h > -1
    THEN weekNthOf(f, ParseUint(SubSeq(s, 1, h)), ParseUint(SubSeq(s, h + 2, Len(s))))
    ELSE numberOrAlias(f, ParseUint(s), AliasLookup(weekAlias, s), 0, 6)

\* trigger.parserWeekField(s); cron is t.cron.
parserWeekField(s, cron) ==
    weekFieldOf(s, Split(cron, " "), NewField(weekField),
                parserCommon(s, NewField(weekField)), IndexByte(s, "L"), IndexByte(s, "#"))

\* The trigger and the error of trigger.parse() from the outcomes of the six
\* fields: the first field in error ends the parse.
triggerOf(cron, sec, min, hour, day, mon, week) ==
    [t   |-> [cron |-> cron, sec |-> sec.f, min |-> min.f, hour |-> hour.f,
              day |-> day.f, mon |-> mon.f, week |-> week.f],
     err |-> IF sec.err # "" THEN sec.err
             ELSE IF min.err # "" THEN min.err
             ELSE IF hour.err # "" THEN hour.err
             ELSE IF day.err # "" THEN day.err
             ELSE IF mon.err # "" THEN mon.err
             ELSE week.err]

\* trigger.parse() with arr the expression split at its blanks.
parseFields(cron, arr) ==
    IF Len(arr) # 6 THEN [t |-> [cron |-> cron], err |-> "count"]
    ELSE triggerOf(cron, parserTimeField(arr[1], secField),
                   parserTimeField(arr[2], minField), parserTimeField(arr[3], hourField),
                   parserDayField(arr[4]), parserMonField(arr[5]),
                   parserWeekField(arr[6], cron))

\* trigger.parse() of newTrigger(cron): the trigger and the error ("" is
\* nil).
parse(cron) == parseFields(cron, Split(cron, " "))

newTrigger(cronExpression) == parse(cronExpression)

(***************************************************************************)
(* The next-fire-time resolver.                                            *)
(***************************************************************************)

\* getRangeNextValue(start, end, nowValue)
getRangeNextValue(start, end, nowValue) ==
    IF \E i \in start..end : i >= nowValue
    THEN [nextValue |-> CHOOSE i \in start..end :
                            i >= nowValue /\ \A k \in start..end : k >= nowValue => i <= k,
          isFind |-> TRUE]
    ELSE [nextValue |-> start, isFind |-> FALSE]

\* getIncreaseNextValue(values, nowValue)
getIncreaseNextValue(values, nowValue) ==
    LET hits == {i \in 1..Len(values) : values[i] >= nowValue}
    IN  IF hits # {}
        THEN [nextValue |-> values[CHOOSE i \in hits : \A k \in hits : i <= k],
              isFind |-> TRUE]
        ELSE [nextValue |-> values[1], isFind |-> FALSE]

\* The smallest value of a field that is >= nowValue (lines 151-155, 182-186,
\* 204-208, 217-221, 230-234).
fieldNextValue(f, nowValue) ==
    IF f.isRange THEN getRangeNextValue(f.start, f.end, nowValue)
    ELSE getIncreaseNextValue(f.values, nowValue)

\* getRangeDayNextValue(start, end, year, nextMonth, day, nextWeekDay)
getRangeDayNextValue(start, end, year, nextMonth, day, nextWeekDay) ==
    LET hits == {i \in start..end :
                    i >= day /\ Weekday(Date(year, nextMonth, i, 0, 0, 0)) = nextWeekDay}
    IN  IF hits # {} THEN CHOOSE i \in hits : \A k \in hits : i <= k ELSE 0

\* getIncreaseDayNextValue(values, year, nextMonth, day, nextWeekDay)
getIncreaseDayNextValue(values, year, nextMonth, day, nextWeekDay) ==
    LET hits == {i \in 1..Len(values) :
                    /\ values[i] >= day
                    /\ Weekday(Date(year, nextMonth, values[i], 0, 0, 0)) = nextWeekDay}
    IN  IF hits # {} THEN values[CHOOSE i \in hits : \A k \in hits : i <= k] ELSE 0

\* getYearMonthDays with every fourth year a leap year.
getYearMonthDaysJulian(year, month) ==
    IF month \in {1, 3, 5, 7, 8, 10, 12} THEN 31
    ELSE IF month \in {4, 6, 9, 11} THEN 30
    ELSE IF year % 4 = 0 THEN 29
    ELSE 28

\* getYearMonthDays(year, month)
getYearMonthDays(year, month) ==
    IF month \in {1, 3, 5, 7, 8, 10, 12} THEN 31
    ELSE IF month \in {4, 6, 9, 11} THEN 30
    ELSE IF (year % 4 = 0 /\ year % 100 # 0) \/ year % 400 = 0 THEN 29
    ELSE 28

\* The loops of the four helpers below: from t, step days (+1 or -1) at a
\* time until the weekday is in the wanted set.
RECURSIVE StepToWeekday(_, _, _)
StepToWeekday(t, step, wanted) ==
    IF Weekday(t) \in wanted THEN t ELSE StepToWeekday(AddDate(t, 0, step), step, wanted)

\* if int(t.Month()) != month { return nil }; return &t.  nil is
\* [ok |-> FALSE]; day is t.Day().
inMonth(t, month) == [ok |-> Civil(t).month = month, t |-> t, day |-> Civil(t).day]

\* getLatestWorkDay(year, month, day)
getLatestWorkDay(year, month, day) ==
    inMonth(StepToWeekday(Date(year, month, day, 0, 0, 0), -1, 1..5), month)

\* getMonthLatestWeek(year, month, weekDay)
getMonthLatestWeek(year, month, weekDay) ==
    StepToWeekday(Date(year, month, getYearMonthDays(year, month), 0, 0, 0), -1, {weekDay})

\* getMonthAfterLatestWeek(year, month, day, weekDay)
getMonthAfterLatestWeek(year, month, day, weekDay) ==
    StepToWeekday(Date(year, month, day, 0, 0, 0), 1, {weekDay})

\* getMonthWeekByWeekNumDay(year, month, weekNum, weekDay): the weekNum-th
\* day of the month with that weekday.
getMonthWeekByWeekNumDay(year, month, weekNum, weekDay) ==
    inMonth(AddDate(StepToWeekday(Date(year, month, 1, 0, 0, 0), 1, {weekDay}),
                    0, 7 * (weekNum - 1)), month)

\* t.day.isRange = true; t.day.start = d; t.day.end = d
setDay(t, d) == [t EXCEPT !.day = FullRange(t.day, d, d)]

\* The same for t.week with the weekday of x, and for t.day with its day.
setWeekAndDay(t, x) ==
    [t EXCEPT !.week = FullRange(t.week, Weekday(x), Weekday(x)),
              !.day = FullRange(t.day, Civil(x).day, Civil(x).day)]

\* The end of a closure that may find no day: r is the *time.Time it looked
\* up.
calculated(t, r, withWeek) ==
    IF ~r.ok THEN [t |-> t, isFind |-> FALSE]
    ELSE [t |-> IF withWeek THEN setWeekAndDay(t, r.t) ELSE setDay(t, r.day),
          isFind |-> TRUE]

\* A calculate closure run for (year, month): it overwrites the trigger's
\* own day (and week) field and returns whether a day was found.
calculate(t, calc, year, month) ==
    CASE calc.kind = "dayL"    ->
             [t |-> setDay(t, getYearMonthDays(year, month)), isFind |-> TRUE]
      [] calc.kind = "dayLW"   ->
             [t |-> setDay(t, getLatestWorkDay(year, month,
                                               getYearMonthDays(year, month)).day),
              isFind |-> TRUE]
      [] calc.kind = "dayW"    -> calculated(t, getLatestWorkDay(year, month, calc.a), FALSE)
      [] calc.kind = "weekL"   ->
             [t |-> setWeekAndDay(t, getMonthLatestWeek(year, month, calc.a)),
              isFind |-> TRUE]
      [] calc.kind = "weekNth" ->
             calculated(t, getMonthWeekByWeekNumDay(year, month, calc.a, calc.b), TRUE)

\* trigger.next(now, deeps...): the instant returned and the trigger as the
\* call leaves it.  deeps is <<>> or <<deep>>.  The operators nextFrom...
\* are the body of the function from the point they name: c holds the civil
\* fields of now, deep is the depth handed to a recursive call.
RECURSIVE next(_, _, _)

\* Lines 229-239: the second, and the instant found.
nextFromSecond(t, deep, c, nextMonth, nextDay, nextHour, nextMin, sec) ==
    IF ~sec.isFind
    THEN next(t, AddSeconds(Date(c.year, nextMonth, nextDay, nextHour, nextMin,
                                 sec.nextValue), 60), <<deep>>)
    ELSE [time |-> Date(c.year, nextMonth, nextDay, nextHour, nextMin, sec.nextValue),
          t |-> t]

\* Lines 212-228: the minute.
nextFromMinute(t, deep, c, nextMonth, nextDay, nextHour, min) ==
    IF ~min.isFind
    THEN next(t, AddSeconds(Date(c.year, nextMonth, nextDay, nextHour, min.nextValue, 0),
                            3600), <<deep>>)
    ELSE nextFromSecond(t, deep, c, nextMonth, nextDay, nextHour, min.nextValue,
             fieldNextValue(t.sec,
                 IF /\ nextMonth = c.month /\ nextDay = c.day /\ nextHour = c.hour
                    /\ min.nextValue = c.min
                 THEN c.sec ELSE 0))

\* Lines 199-211: the hour.
nextFromHour(t, deep, c, nextMonth, nextDay, hour) ==
    IF ~hour.isFind
    THEN next(t, AddSeconds(Date(c.year, nextMonth, nextDay, hour.nextValue, 0, 0),
                            SecondsPerDay), <<deep>>)
    ELSE nextFromMinute(t, deep, c, nextMonth, nextDay, hour.nextValue,
             fieldNextValue(t.min,
                 IF nextMonth = c.month /\ nextDay = c.day /\ hour.nextValue = c.hour
                 THEN c.min ELSE 0))

\* Line 199 on, once the day is known.
nextFromDay(t, deep, c, nextMonth, nextDay) ==
    nextFromHour(t, deep, c, nextMonth, nextDay,
        fieldNextValue(t.hour, IF nextMonth = c.month /\ nextDay = c.day THEN c.hour ELSE 0))

\* Lines 163-173: a calculate closure has decided the day; calc is its
\* outcome.
nextFromCalculate(now, deep, c, nextMonth, calc) ==
    IF \/ ~calc.isFind
       \/ Before(Date(c.year, nextMonth, calc.t.day.start, c.hour, c.min, c.sec), now)
    THEN next(calc.t, AddDate(Date(c.year, nextMonth, 1, 0, 0, 0), 1, 0), <<deep>>)
    ELSE nextFromDay(calc.t, deep, c, nextMonth, calc.t.day.start)

\* Lines 187-197: the weekday, then the day of the month with that weekday;
\* week is the weekday found and startDay the day the search starts at.
nextFromWeek(t, deep, c, nextMonth, startDay, week) ==
    IF ~week.isFind
    THEN next(t, getMonthAfterLatestWeek(c.year, nextMonth, startDay, week.nextValue),
              <<deep>>)
    ELSE nextFromDay(t, deep, c, nextMonth,
             IF t.day.isRange
             THEN getRangeDayNextValue(t.day.start, t.day.end, c.year, nextMonth, startDay,
                                       week.nextValue)
             ELSE getIncreaseDayNextValue(t.day.values, c.year, nextMonth, startDay,
                                          week.nextValue))

\* Lines 156-197: mon is the month found.
nextFromMonth(t, now, deep, c, mon) ==
    IF ~mon.isFind
    THEN next(t, Date(c.year + 1, mon.nextValue, 1, 0, 0, 0), <<deep>>)
    ELSE IF t.week.calculate.kind # "nil" \/ t.day.calculate.kind # "nil"
    THEN nextFromCalculate(now, deep, c, mon.nextValue,
             calculate(t, IF t.week.calculate.kind # "nil" THEN t.week.calculate
                          ELSE t.day.calculate, c.year, mon.nextValue))
    ELSE nextFromWeek(t, deep, c, mon.nextValue,
             IF mon.nextValue = c.month THEN c.day ELSE 1,
             fieldNextValue(t.week, IF mon.nextValue = c.month THEN c.wd ELSE 0))

\* Lines 136-155, c the civil fields of now.
nextFromNow(t, now, deep, c) == nextFromMonth(t, now, deep, c, fieldNextValue(t.mon, c.month))

\* trigger.next with a depth guard one restart further out.
nextDeeper(t, now, deeps) ==
    IF Len(deeps) > 0 /\ deeps[1] > maxDeep + 1 THEN [time |-> ZeroTime, t |-> t]
    ELSE nextFromNow(t, now, (IF Len(deeps) > 0 THEN deeps[1] ELSE 0) + 1, Civil(now))

next(t, now, deeps) ==
    IF Len(deeps) > 0 /\ deeps[1] > maxDeep THEN [time |-> ZeroTime, t |-> t]
    ELSE nextFromNow(t, now, (IF Len(deeps) > 0 THEN deeps[1] ELSE 0) + 1, Civil(now))

(***************************************************************************)
(* Jobs.                                                                   *)
(***************************************************************************)

\* The job newJob returns for trigger t: j.nextTime = j.next(time.Now()),
\* n the outcome of t.next.
jobOf(n) == [j |-> [t |-> n.t, nextTime |-> n.time], err |-> ""]

\* newJob with p the outcome of newTrigger.
newJobOf(p, now) ==
    IF p.err # "" THEN [j |-> [t |-> p.t, nextTime |-> ZeroTime], err |-> p.err]
    ELSE jobOf(next(p.t, now, <<>>))

\* newJob(cronExpression, f) called at instant now: the job (its trigger and
\* its first cached fire time) and the error of newTrigger ("" is nil).
newJob(cronExpression, now) == newJobOf(newTrigger(cronExpression), now)

\* The job once its trigger has resolved n.
jobAt(j, n) == [j EXCEPT !.t = n.t, !.nextTime = n.time]

\* job.next(t): the job afterwards; its nextTime is what the call returns.
jobNext(j, t) == IF After(j.nextTime, t) THEN j ELSE jobAt(j, next(j.t, t, <<>>))

(***************************************************************************)
(* The scheduler.                                                          *)
(***************************************************************************)

\* Bounds of the model.
MaxId == 2

MaxClock == 1

MaxStops == 1

MaxStarts == 1

MaxDrivers == 2

MaxCalls == 2

BaseYear == 2024

\* The expressions AddJob is called with.
Cron(sec, min, hour, day, mon, week) ==
    sec \o <<" ">> \o min \o <<" ">> \o hour \o <<" ">> \o day \o <<" ">> \o mon
        \o <<" ">> \o week

\* "* * * * * ?"
EverySecond == Cron(<<"*">>, <<"*">>, <<"*">>, <<"*">>, <<"*">>, <<"?">>)

\* "1 * * * * ?"
AtSecondOne == Cron(<<"1">>, <<"*">>, <<"*">>, <<"*">>, <<"*">>, <<"?">>)

SchedulerCrons == {EverySecond, AtSecondOne}

\* The instant the scheduler is constructed at.
StartTime == Date(BaseYear, 1, 1, 0, 0, 0)

VARIABLES
    clock,      \* time.Now()
    jobs,       \* c.jobs: the jobs (their ids) in list order
    jobMap,     \* c.jobMap: the ids it holds
    job,        \* the job objects the list points to, by id
    id,         \* c.id
    running,    \* c.running
    runState,   \* c.runState
    stop,       \* c.stop: buffered tokens and whether it is closed
    jobChan,    \* c.jobChan
    lock,       \* c.lock: "" when free, else the operation that holds it
                \* while it is blocked on a channel send
    timer,      \* c.timer: the deadline and state of the timer it points to
    drivers,    \* the goroutines inside run(), a bag of their local states
    watchers,   \* the goroutines inside watchJobAdding(), each in its select
    wg,         \* c.wg: its counter
    calls,      \* the callback goroutines that have not finished, a bag
    nStops,     \* Stop calls that have returned their signal
    waiting,    \* the Stop calls whose completion signal has not resolved
    crashed,    \* an unrecovered panic has ended the process
    log,        \* every dispatch so far (history)
    started,    \* the instants of the Start calls that took effect (history)
    ret         \* what the call observed last returned (history); the
                \* specifications that observe no call leave it alone

vars == <<clock, jobs, jobMap, job, id, running, runState, stop, jobChan, lock,
          timer, drivers, watchers, wg, calls, nStops, waiting, crashed, log,
          started>>

OpenChan == [n |-> 0, closed |-> FALSE]

\* No call has been observed.
NoCall == [op |-> ""]

\* New(): an empty scheduler; both channels have a buffer of one.
Init ==
    /\ clock = StartTime
    /\ jobs = <<>>
    /\ jobMap = {}
    /\ job = <<>>
    /\ id = 0
    /\ running = FALSE
    /\ runState = FALSE
    /\ stop = OpenChan
    /\ jobChan = OpenChan
    /\ lock = ""
    /\ timer = [at |-> ZeroTime, st |-> "nil"]
    /\ drivers = EmptyBag
    /\ watchers = 0
    /\ wg = 0
    /\ calls = EmptyBag
    /\ nStops = 0
    /\ waiting = {}
    /\ crashed = FALSE
    /\ log = {}
    /\ started = <<>>
    /\ ret = NoCall

\* A function without the keys outside `keep`.
Restrict(f, keep) == [k \in DOMAIN f \cap keep |-> f[k]]

\* A function with key k set to v.
With(f, k, v) == [x \in DOMAIN f \cup {k} |-> IF x = k THEN v ELSE f[x]]

\* The list without its element at index i (append(c.jobs[:i], c.jobs[i+1:]...)).
RemoveAt(list, i) == SubSeq(list, 1, i - 1) \o SubSeq(list, i + 1, Len(list))

One(x) == SetToBag({x})

\* A bag with one copy of `old` replaced by `new`.
Replace(bag, old, new) == (bag (-) One(old)) (+) One(new)

\* The channel after a send that does not block, and after a receive.
Sent(ch) == [ch EXCEPT !.n = ch.n + 1]

Received(ch) == [ch EXCEPT !.n = IF ch.n > 0 THEN ch.n - 1 ELSE 0]

\* A send blocks while the buffer (of one) is full; a receive can proceed
\* when a token is buffered or the channel is closed.
CanSend(ch) == ch.n < 1

CanReceive(ch) == ch.n > 0 \/ ch.closed

(***************************************************************************)
(* Timers.  c.timer points to the timer made last.  A driver in its select *)
(* waits on the timer it made: tm is "timer" while c.timer still points to *)
(* it, and else the state ("armed", "stopped") the timer was left in when  *)
(* c.timer moved on, which nothing can change any more.                    *)
(***************************************************************************)

\* A timer nobody waits on: its tick was received or its driver has gone.
SpentTimer == [at |-> ZeroTime, st |-> "spent"]

\* The channel of the driver's timer holds its tick.
Due(d) ==
    \/ d.tm = "timer" /\ timer.st = "armed" /\ ~Before(clock, timer.at)
    \/ d.tm = "armed" /\ ~Before(clock, d.nextTime)

\* c.timer.Stop().  A timer that has not expired is stopped; one that has
\* expired keeps the tick in its channel (keep) or loses it, depending on
\* the runtime.
Stopped(tm, keep) ==
    IF tm.st = "armed" /\ (Before(clock, tm.at) \/ ~keep)
    THEN [tm EXCEPT !.st = "stopped"]
    ELSE tm

\* The drivers once c.timer points to a new timer: the one that waited on
\* the timer c.timer pointed to keeps waiting on it.
Orphaned(drv) ==
    LET held == {d \in BagToSet(drv) : d.tm = "timer"}
    IN  IF held = {} THEN drv
        ELSE LET d == CHOOSE d \in held : TRUE
             IN  Replace(drv, d, [d EXCEPT !.tm = timer.st])

(***************************************************************************)
(* The caller's operations.                                                *)
(***************************************************************************)

\* A goroutine entering run(): now := time.Now(); nextNextTime := now (lines
\* 882-884).  due is history: the jobs of the set that were due at the
\* instant of the tick in progress when the driver woke for it.
NewDriver ==
    [pc |-> "sort", nextTime |-> ZeroTime, nextNextTime |-> clock, i |-> 0,
     temp |-> ZeroTime, tm |-> "", j |-> 0, due |-> {}]

\* A driver is blocked in its select: its timer has no tick and c.stop
\* offers nothing.
Sleeping(d) == d.pc = "wait" /\ ~Due(d) /\ ~CanReceive(stop)

\* The job object AddJob puts in the list.  first and covered are history:
\* the fire time newJob computed, and whether the job was added while the
\* scheduler was running and a driver slept until the later fire time of a
\* job of the list.
Added(j) ==
    [t |-> j.t, nextTime |-> j.nextTime, first |-> j.nextTime,
     covered |-> /\ running
                 /\ \E d \in BagToSet(drivers), k \in jobMap :
                        /\ Sleeping(d)
                        /\ Equal(d.nextTime, job[k].nextTime)
                        /\ After(d.nextTime, j.nextTime)]

\* AddJob that does not look at the error of newJob.
AddJobOfUnchecked(r) ==
    /\ ~crashed /\ lock = ""
    /\ id' = id + 1
    /\ jobs' = Append(jobs, id + 1)
    /\ jobMap' = jobMap \cup {id + 1}
    /\ job' = With(job, id + 1, Added(r.j))
    /\ IF ~running THEN UNCHANGED <<jobChan, lock, crashed>>
       ELSE IF jobChan.closed
            THEN crashed' = TRUE /\ UNCHANGED <<jobChan, lock>>
       ELSE IF CanSend(jobChan)
            THEN jobChan' = Sent(jobChan) /\ UNCHANGED <<lock, crashed>>
       ELSE lock' = "AddJob" /\ UNCHANGED <<jobChan, crashed>>
    /\ UNCHANGED <<clock, running, runState, stop, timer, drivers, watchers,
                   wg, calls, nStops, waiting, log, started>>

\* AddJob from line 806 on, r the outcome of newJob; on an error it returns
\* before it asks for the lock.
AddJobOf(r) ==
    /\ ~crashed /\ (r.err # "" \/ lock = "")
    /\ IF r.err # ""
       THEN UNCHANGED <<id, jobs, jobMap, job, jobChan, lock, crashed>>
       ELSE /\ id' = id + 1
            /\ jobs' = Append(jobs, id + 1)
            /\ jobMap' = jobMap \cup {id + 1}
            /\ job' = With(job, id + 1, Added(r.j))
            /\ IF ~running THEN UNCHANGED <<jobChan, lock, crashed>>
               ELSE IF jobChan.closed
                    THEN crashed' = TRUE /\ UNCHANGED <<jobChan, lock>>
               ELSE IF CanSend(jobChan)
                    THEN jobChan' = Sent(jobChan) /\ UNCHANGED <<lock, crashed>>
               ELSE lock' = "AddJob" /\ UNCHANGED <<jobChan, crashed>>
    /\ UNCHANGED <<clock, running, runState, stop, timer, drivers, watchers,
                   wg, calls, nStops, waiting, log, started>>

\* Scheduler.AddJob(cronExpression, f), up to its send on c.jobChan.
AddJob(cron) == AddJobOf(newJob(cron, clock))

\* AddJob blocked in c.jobChan <- struct{}{} (line 817), the lock held.
AddJobSend ==
    /\ ~crashed /\ lock = "AddJob" /\ CanSend(jobChan)
    /\ jobChan' = Sent(jobChan)
    /\ lock' = ""
    /\ UNCHANGED <<clock, jobs, jobMap, job, id, running, runState, stop, timer,
                   drivers, watchers, wg, calls, nStops, waiting, crashed, log, started>>

\* The rest of Remove once the only job is being removed (lines 830-833).
RemoveLast ==
    /\ stop' = Sent(stop)
    /\ runState' = FALSE
    /\ jobs' = <<>>
    /\ job' = <<>>
    /\ lock' = ""

\* Remove that does not look the id up in c.jobMap.
RemoveUnchecked(rid) ==
    /\ ~crashed /\ lock = ""
    /\ jobMap' = jobMap \ {rid}
    /\ IF Len(jobs) = 1
       THEN IF stop.closed
            THEN crashed' = TRUE /\ UNCHANGED <<jobs, job, runState, stop, lock>>
            ELSE IF CanSend(stop) THEN RemoveLast /\ UNCHANGED crashed
            ELSE lock' = "Remove" /\ UNCHANGED <<jobs, job, runState, stop, crashed>>
       ELSE IF \E i \in 1..Len(jobs) : jobs[i] = rid
            THEN /\ jobs' = RemoveAt(jobs, CHOOSE i \in 1..Len(jobs) : jobs[i] = rid)
                 /\ job' = Restrict(job, DOMAIN job \ {rid})
                 /\ UNCHANGED <<runState, stop, lock, crashed>>
            ELSE crashed' = TRUE /\ UNCHANGED <<jobs, job, runState, stop, lock>>
    /\ UNCHANGED <<clock, id, running, jobChan, timer, drivers, watchers, wg,
                   calls, nStops, waiting, log, started>>

\* Scheduler.Remove(id), up to its send on c.stop.
Remove(rid) ==
    /\ ~crashed /\ lock = ""
    /\ IF rid \notin jobMap
       THEN UNCHANGED <<jobs, jobMap, job, runState, stop, lock, crashed>>
       ELSE /\ jobMap' = jobMap \ {rid}
            /\ IF Len(jobs) = 1
               THEN IF stop.closed
                    THEN crashed' = TRUE /\ UNCHANGED <<jobs, job, runState, stop, lock>>
                    ELSE IF CanSend(stop) THEN RemoveLast /\ UNCHANGED crashed
                    ELSE lock' = "Remove" /\ UNCHANGED <<jobs, job, runState, stop, crashed>>
               ELSE IF \E i \in 1..Len(jobs) : jobs[i] = rid
                    THEN /\ jobs' = RemoveAt(jobs, CHOOSE i \in 1..Len(jobs) : jobs[i] = rid)
                         /\ job' = Restrict(job, DOMAIN job \ {rid})
                         /\ UNCHANGED <<runState, stop, lock, crashed>>
                    ELSE crashed' = TRUE /\ UNCHANGED <<jobs, job, runState, stop, lock>>
    /\ UNCHANGED <<clock, id, running, jobChan, timer, drivers, watchers, wg,
                   calls, nStops, waiting, log, started>>

\* Remove blocked in c.stop <- struct{}{} (line 830), the lock held.
RemoveSend ==
    /\ ~crashed /\ lock = "Remove" /\ CanSend(stop)
    /\ RemoveLast
    /\ UNCHANGED <<clock, jobMap, id, running, jobChan, timer, drivers, watchers,
                   wg, calls, nStops, waiting, crashed, log, started>>

\* Scheduler.Start(): it takes no lock; with jobs in the list the caller's
\* goroutine enters run().
Start ==
    /\ ~crashed
    /\ IF running THEN UNCHANGED <<running, watchers, drivers, started>>
       ELSE /\ running' = TRUE
            /\ started' = Append(started, clock)
            /\ watchers' = watchers + 1
            /\ drivers' = IF Len(jobs) = 0 THEN drivers ELSE drivers (+) One(NewDriver)
    /\ UNCHANGED <<clock, jobs, jobMap, job, id, runState, stop, jobChan, lock, timer,
                    wg, calls, nStops, waiting, crashed, log>>

\* Stop with a goroutine that calls cancel() without c.wg.Wait(): the
\* signal resolves at once.
StopWithoutWait ==
    /\ ~crashed /\ lock = ""
    /\ IF running /\ (stop.closed \/ jobChan.closed)
       THEN crashed' = TRUE /\ UNCHANGED <<stop, jobChan, running, nStops>>
       ELSE /\ nStops' = nStops + 1
            /\ IF running
               THEN /\ stop' = [stop EXCEPT !.closed = TRUE]
                    /\ jobChan' = [jobChan EXCEPT !.closed = TRUE]
                    /\ running' = FALSE
               ELSE UNCHANGED <<stop, jobChan, running>>
            /\ UNCHANGED crashed
    /\ UNCHANGED <<clock, jobs, jobMap, job, id, runState, lock, timer, drivers,
                   watchers, wg, calls, waiting, log, started>>

\* Stop that sets c.running to false and closes neither channel.
StopWithoutClose ==
    /\ ~crashed /\ lock = ""
    /\ nStops' = nStops + 1
    /\ running' = FALSE
    /\ waiting' = IF wg = 0 THEN waiting ELSE waiting \cup {nStops + 1}
    /\ UNCHANGED <<clock, jobs, jobMap, job, id, runState, lock, timer, drivers,
                   watchers, wg, calls, log, started, stop, jobChan, crashed>>

\* Scheduler.Stop(): the goroutine it starts waits for c.wg and then
\* resolves the context returned; it is taken to reach c.wg.Wait() before
\* the next dispatch.  On a scheduler started again after a Stop the close
\* of the closed channel panics and no signal is returned.
Stop ==
    /\ ~crashed /\ lock = ""
    /\ IF running /\ (stop.closed \/ jobChan.closed)
       THEN crashed' = TRUE /\ UNCHANGED <<stop, jobChan, running, waiting, nStops>>
       ELSE /\ nStops' = nStops + 1
            /\ IF running
               THEN /\ stop' = [stop EXCEPT !.closed = TRUE]
                    /\ jobChan' = [jobChan EXCEPT !.closed = TRUE]
                    /\ running' = FALSE
               ELSE UNCHANGED <<stop, jobChan, running>>
            /\ waiting' = IF wg = 0 THEN waiting ELSE waiting \cup {nStops + 1}
            /\ UNCHANGED crashed
    /\ UNCHANGED <<clock, jobs, jobMap, job, id, runState, lock, timer, drivers,
                   watchers, wg, calls, log, started>>

(***************************************************************************)
(* The driver: Scheduler.run().  A driver takes a step at each point where *)
(* another goroutine's step in between changes what it does next.          *)
(***************************************************************************)

\* sort.Slice on a list this short is an insertion sort: each element moves
\* left past the elements it is less than.
RECURSIVE insertionSort(_, _)
insertionSort(list, jb) ==
    IF Len(list) <= 1 THEN list
    ELSE LET sorted == insertionSort(SubSeq(list, 1, Len(list) - 1), jb)
             x      == list[Len(list)]
             stay   == {i \in 1..Len(sorted) :
                           ~Before(jb[x].nextTime, jb[sorted[i]].nextTime)}
             pos    == IF stay = {} THEN 0
                       ELSE CHOOSE i \in stay : \A k \in stay : k <= i
         IN  SubSeq(sorted, 1, pos) \o <<x>> \o SubSeq(sorted, pos + 1, Len(sorted))

\* The job objects after the comparisons of sortJob(now): with two jobs or
\* more each one is compared, and the comparison calls its next(now).
sortedObjects(now) ==
    IF Len(jobs) >= 2 THEN [k \in DOMAIN job |-> jobNext(job[k], now)] ELSE job

\* The driver's locals outside a tick.
Idle(d) ==
    [d EXCEPT !.nextTime = ZeroTime, !.i = 0, !.temp = ZeroTime, !.j = 0, !.due = {}]

\* From the top of the loop to the select statement (lines 886-894):
\* c.sortJob(nextNextTime) under the lock; return on an empty list; else
\* nextTime = c.jobs[0].nextTime, nextNextTime = nextTime.Add(time.Second),
\* c.timer = time.NewTimer(nextTime.Sub(now)), and the select is entered.
SortTo(d, jb, sorted) ==
    /\ ~crashed /\ lock = "" /\ d.pc = "sort"
    /\ job' = jb
    /\ jobs' = sorted
    /\ IF Len(jobs) = 0
       THEN /\ drivers' = drivers (-) One(d)
            /\ UNCHANGED timer
       ELSE /\ drivers' = Orphaned(drivers (-) One(d)) (+)
                   One([d EXCEPT !.pc = "wait", !.nextTime = jb[sorted[1]].nextTime,
                                 !.nextNextTime = AddSeconds(jb[sorted[1]].nextTime, 1),
                                 !.tm = "timer"])
            /\ timer' = [at |-> jb[sorted[1]].nextTime, st |-> "armed"]
    /\ UNCHANGED <<clock, jobMap, id, running, runState, stop, jobChan, lock, watchers,
                   wg, calls, nStops, waiting, crashed, log, started>>

\* The same with jb the job objects as the comparisons of the sort leave
\* them.
SortWith(d, jb) == SortTo(d, jb, insertionSort(jobs, jb))

Sort(d) == SortWith(d, sortedObjects(d.nextNextTime))

\* tempNextTime.Equal(*nextTime) && i < len(c.jobs) (line 896)
loopCondition(d) == Equal(d.temp, d.nextTime) /\ d.i < Len(jobs)

\* The top of the fire loop (lines 896-897, 904): while the condition holds,
\* c.jobs[i] is read for runJob; when it fails, c.timer.Stop() and the driver
\* goes back to sorting.
loopTop(d) ==
    IF loopCondition(d) THEN [d EXCEPT !.pc = "run", !.j = jobs[d.i + 1]]
    ELSE Idle([d EXCEPT !.pc = "sort"])

\* The jobs of the set whose cached fire time is t.
DueJobs(t) == {k \in jobMap : Equal(job[k].nextTime, t)}

\* case <-c.timer.C: the driver wakes for instant nextTime and enters the
\* fire loop with i = 0 and tempNextTime = nextTime (lines 895-896).
WakeTimer(d) ==
    /\ ~crashed /\ d.pc = "wait" /\ Due(d)
    /\ LET woken == loopTop([d EXCEPT !.i = 0, !.temp = d.nextTime, !.tm = "",
                                      !.due = DueJobs(d.nextTime)])
           spent == IF d.tm = "timer" THEN SpentTimer ELSE timer
       IN  /\ drivers' = Replace(drivers, d, woken)
           /\ \E keep \in BOOLEAN :
                  timer' = IF woken.pc = "sort" THEN Stopped(spent, keep) ELSE spent
    /\ UNCHANGED <<clock, jobs, jobMap, job, id, running, runState, stop, jobChan, lock,
                   watchers, wg, calls, nStops, waiting, crashed, log, started>>

\* case <-c.stop: c.timer.Stop(); return (lines 905-907)
WakeStop(d) ==
    /\ ~crashed /\ d.pc = "wait" /\ CanReceive(stop)
    /\ stop' = Received(stop)
    /\ drivers' = drivers (-) One(d)
    /\ \E keep \in BOOLEAN :
           timer' = IF d.tm = "timer" THEN SpentTimer ELSE Stopped(timer, keep)
    /\ UNCHANGED <<clock, jobs, jobMap, job, id, running, runState, jobChan, lock,
                   watchers, wg, calls, nStops, waiting, crashed, log, started>>

\* The top of the fire loop after an iteration.
Fire(d) ==
    /\ ~crashed /\ d.pc = "fire"
    /\ drivers' = Replace(drivers, d, loopTop(d))
    /\ \E keep \in BOOLEAN :
           timer' = IF loopCondition(d) THEN timer ELSE Stopped(timer, keep)
    /\ UNCHANGED <<clock, jobs, jobMap, job, id, running, runState, stop, jobChan, lock,
                   watchers, wg, calls, nStops, waiting, crashed, log, started>>

\* runJob running the callback in the driver's own goroutine: the dispatch
\* waits until no callback is running.
runJobInline(j) ==
    /\ wg = 0
    /\ wg' = wg + 1
    /\ calls' = calls (+) One(nStops)

\* Scheduler.runJob(j): c.wg.Add(1) and the goroutine that runs the
\* callback, which is recorded with the number of Stop calls made before it.
runJob(j) ==
    /\ wg' = wg + 1
    /\ calls' = calls (+) One(nStops)

\* The loop body (lines 897-902): c.runJob of the job read,
\* c.jobs[i].next(nextNextTime), i++, and tempNextTime = c.jobs[i].nextTime
\* when i < len(c.jobs).  The log entry is history: the job and the
\* instant the driver woke for.
Advance(d, jb) ==
    /\ job' = jb
    /\ drivers' = Replace(drivers, d,
           [d EXCEPT !.pc = "fire", !.i = d.i + 1, !.j = 0,
                     !.temp = IF d.i + 1 < Len(jobs) THEN jb[jobs[d.i + 2]].nextTime
                              ELSE d.temp])
    /\ UNCHANGED crashed

\* The loop body, the index c.jobs[i] being in range or not (a panic).
RunAt(d, inRange) ==
    /\ ~crashed /\ d.pc = "run"
    /\ runJob(d.j)
    /\ log' = log \cup {[id |-> d.j, at |-> d.nextTime]}
    /\ IF ~inRange
       THEN crashed' = TRUE /\ UNCHANGED <<job, drivers>>
       ELSE Advance(d, [job EXCEPT ![jobs[d.i + 1]] =
                                       jobNext(job[jobs[d.i + 1]], d.nextNextTime)])
    /\ UNCHANGED <<clock, jobs, jobMap, id, running, runState, stop, jobChan, lock, timer,
                   watchers, nStops, waiting, started>>

Run(d) == RunAt(d, d.i < Len(jobs))

(***************************************************************************)
(* Scheduler.watchJobAdding(), the callbacks and the clock.                *)
(***************************************************************************)

\* One turn of the loop of watchJobAdding (lines 912-920), from the select
\* to the next one: case <-c.jobChan: if c.runState { c.stop <- struct{}{};
\* c.runState = false }; go c.run(); and the goroutine ends once c.running
\* is false.
WatchReceive ==
    /\ ~crashed /\ watchers > 0 /\ CanReceive(jobChan)
    /\ runState => CanSend(stop) \/ stop.closed
    /\ jobChan' = Received(jobChan)
    /\ IF runState /\ stop.closed
       THEN crashed' = TRUE /\ UNCHANGED <<stop, runState, drivers, watchers>>
       ELSE /\ stop' = IF runState THEN Sent(stop) ELSE stop
            /\ runState' = FALSE
            /\ drivers' = drivers (+) One(NewDriver)
            /\ watchers' = IF running THEN watchers ELSE watchers - 1
            /\ UNCHANGED crashed
    /\ UNCHANGED <<clock, jobs, jobMap, job, id, running, lock, timer, wg, calls,
                   nStops, waiting, log, started>>

\* job.run() without the recover of its deferred function: a panic of the
\* callback leaves run.
jobRunNoRecover(panics) == IF panics THEN "panicked" ELSE "returned"

\* job.run() (lines 774-783): j.fun() returns or panics; the deferred
\* function recovers a panic and prints the stack, so run returns either way.
jobRun(panics) == "returned"

\* The goroutine of runJob ends (lines 925-928), j.run() having returned or
\* panicked.  After a return the deferred c.wg.Done() runs: a counter of
\* zero releases every goroutine blocked in c.wg.Wait().  A panic that
\* leaves the goroutine ends the program.
Done(c, outcome) ==
    /\ ~crashed /\ BagIn(c, calls)
    /\ IF outcome = "panicked"
       THEN crashed' = TRUE /\ UNCHANGED <<calls, wg, waiting>>
       ELSE /\ calls' = calls (-) One(c)
            /\ wg' = wg - 1
            /\ waiting' = IF wg - 1 = 0 THEN {} ELSE waiting
            /\ UNCHANGED crashed
    /\ UNCHANGED <<clock, jobs, jobMap, job, id, running, runState, stop, jobChan, lock,
                   timer, drivers, watchers, nStops, log, started>>

\* A callback goroutine ends, the callback having returned or panicked.
Finish(c) == \E panics \in BOOLEAN : Done(c, jobRun(panics))

\* Some goroutine of the scheduler has a step to take.
Busy ==
    \/ \E d \in BagToSet(drivers) :
           \/ d.pc \in {"fire", "run"}
           \/ d.pc = "sort" /\ lock = ""
           \/ d.pc = "wait" /\ (Due(d) \/ CanReceive(stop))
    \/ watchers > 0 /\ CanReceive(jobChan)
    \/ lock = "AddJob" /\ CanSend(jobChan)
    \/ lock = "Remove" /\ CanSend(stop)

\* A second passes.  The steps of the goroutines take no time: the clock
\* moves on when none of them has a step to take.
Tick ==
    /\ ~crashed /\ ~Busy
    /\ clock' = AddSeconds(clock, 1)
    /\ UNCHANGED <<jobs, jobMap, job, id, running, runState, stop, jobChan, lock, timer,
                   drivers, watchers, wg, calls, nStops, waiting, crashed, log, started>>

\* A second passes although the timer of a sleeping driver has expired: the
\* driver's goroutine is not run in the second its timer fires, and wakes
\* late (time.NewTimer promises no less than the duration, line 893).
Lag ==
    /\ ~crashed
    /\ \E d \in BagToSet(drivers) : d.pc = "wait" /\ Due(d)
    /\ \A d \in BagToSet(drivers) : d.pc = "wait"
    /\ clock' = AddSeconds(clock, 1)
    /\ UNCHANGED <<jobs, jobMap, job, id, running, runState, stop, jobChan, lock, timer,
                   drivers, watchers, wg, calls, nStops, waiting, crashed, log, started>>

\* The caller's operations, the drivers, the watcher, the callbacks and the
\* clock.  The bounds of the model cap the calls made, the goroutines alive
\* and the seconds that pass.
Next ==
    \/ \E cron \in SchedulerCrons : id < MaxId /\ AddJob(cron) /\ UNCHANGED ret
    \/ AddJobSend /\ UNCHANGED ret
    \/ \E rid \in 1..MaxId : Remove(rid) /\ UNCHANGED ret
    \/ RemoveSend /\ UNCHANGED ret
    \/ /\ running \/ Len(started) < MaxStarts
       /\ BagCardinality(drivers) < MaxDrivers
       /\ Start
       /\ UNCHANGED ret
    \/ nStops < MaxStops /\ Stop /\ UNCHANGED ret
    \/ \E d \in BagToSet(drivers) : Sort(d) /\ UNCHANGED ret
    \/ \E d \in BagToSet(drivers) : WakeTimer(d) /\ UNCHANGED ret
    \/ \E d \in BagToSet(drivers) : WakeStop(d) /\ UNCHANGED ret
    \/ \E d \in BagToSet(drivers) : Fire(d) /\ UNCHANGED ret
    \/ \E d \in BagToSet(drivers) : wg < MaxCalls /\ Run(d) /\ UNCHANGED ret
    \/ BagCardinality(drivers) < MaxDrivers /\ WatchReceive /\ UNCHANGED ret
    \/ \E c \in BagToSet(calls) : Finish(c) /\ UNCHANGED ret
    \/ Before(clock, AddSeconds(StartTime, MaxClock)) /\ Tick /\ UNCHANGED ret

Spec == Init /\ [][Next]_vars

(***************************************************************************)
(* The scheduler with three jobs and three drivers: AddJob of the          *)
(* every-second expression, Start, the drivers, the watcher and the clock, *)
(* without Remove and Stop; the callbacks dispatched run on to the end.    *)
(***************************************************************************)

CoverMaxId == 3

CoverMaxDrivers == 3

CoverNext ==
    \/ id < CoverMaxId /\ AddJob(EverySecond) /\ UNCHANGED ret
    \/ AddJobSend /\ UNCHANGED ret
    \/ /\ running \/ Len(started) < MaxStarts
       /\ BagCardinality(drivers) < CoverMaxDrivers
       /\ Start
       /\ UNCHANGED ret
    \/ \E d \in BagToSet(drivers) : Sort(d) /\ UNCHANGED ret
    \/ \E d \in BagToSet(drivers) : WakeTimer(d) /\ UNCHANGED ret
    \/ \E d \in BagToSet(drivers) : Fire(d) /\ UNCHANGED ret
    \/ \E d \in BagToSet(drivers) : wg < MaxCalls /\ Run(d) /\ UNCHANGED ret
    \/ BagCardinality(drivers) < CoverMaxDrivers /\ WatchReceive /\ UNCHANGED ret
    \/ Before(clock, AddSeconds(StartTime, MaxClock)) /\ Tick /\ UNCHANGED ret

CoverSpec == Init /\ [][CoverNext]_vars

(***************************************************************************)
(* The resolver on its own: a scheduler that is never started, constructed *)
(* at any of a set of instants, resolves an expression (AddJob computes    *)
(* next(E, now) in newJob) and re-feeds the result plus one second, as the *)
(* driver's loop does (lines 892 and 898).                                 *)
(***************************************************************************)

\* The days, from 1 January of BaseYear on, and the seconds of the day of
\* the instants resolved from.
ResolverDays == 366

ResolverSeconds ==
    {0, 9 * 3600, 9 * 3600 + 30 * 60, 12 * 3600, 12 * 3600 + 1, SecondsPerDay - 1}

ResolverInstants ==
    {[d |-> StartTime.d + n, s |-> s] : n \in 0..(ResolverDays - 1), s \in ResolverSeconds}

\* Jobs added in one run of the resolver.
ResolverMaxId == 1

\* "0 0 12 ? * WED"
WedNoon == Cron(<<"0">>, <<"0">>, <<"1", "2">>, <<"?">>, <<"*">>, <<"W", "E", "D">>)

\* "0 0 12 15 * ?"
NoonOn15th == Cron(<<"0">>, <<"0">>, <<"1", "2">>, <<"1", "5">>, <<"*">>, <<"?">>)

\* "0 0 12 L * ?"
NoonOnLastDay == Cron(<<"0">>, <<"0">>, <<"1", "2">>, <<"L">>, <<"*">>, <<"?">>)

\* "0 0 12 * * MON"
NoonOnMondays == Cron(<<"0">>, <<"0">>, <<"1", "2">>, <<"*">>, <<"*">>, <<"M", "O", "N">>)

\* "0 30 9 1 * ?"
HalfPastNineOn1st == Cron(<<"0">>, <<"3", "0">>, <<"9">>, <<"1">>, <<"*">>, <<"?">>)

ResolverCrons ==
    {WedNoon, NoonOn15th, NoonOnLastDay, NoonOnMondays, EverySecond, HalfPastNineOn1st}

ResolverInit ==
    /\ clock \in ResolverInstants
    /\ jobs = <<>>
    /\ jobMap = {}
    /\ job = <<>>
    /\ id = 0
    /\ running = FALSE
    /\ runState = FALSE
    /\ stop = OpenChan
    /\ jobChan = OpenChan
    /\ lock = ""
    /\ timer = [at |-> ZeroTime, st |-> "nil"]
    /\ drivers = EmptyBag
    /\ watchers = 0
    /\ wg = 0
    /\ calls = EmptyBag
    /\ nStops = 0
    /\ waiting = {}
    /\ crashed = FALSE
    /\ log = {}
    /\ started = <<>>
    /\ ret = NoCall

\* j.next(j.nextTime.Add(time.Second)) of job k, once, for a result that is
\* not the sentinel.
Refeed(k) ==
    /\ k \in jobMap
    /\ Equal(job[k].nextTime, job[k].first)
    /\ ~Equal(job[k].nextTime, ZeroTime)
    /\ job' = [job EXCEPT ![k] = jobNext(job[k], AddSeconds(job[k].nextTime, 1))]
    /\ UNCHANGED <<clock, jobs, jobMap, id, running, runState, stop, jobChan, lock, timer,
                   drivers, watchers, wg, calls, nStops, waiting, crashed, log, started>>

ResolverNext ==
    \/ \E cron \in ResolverCrons : id < ResolverMaxId /\ AddJob(cron) /\ UNCHANGED ret
    \/ \E k \in 1..ResolverMaxId : Refeed(k) /\ UNCHANGED ret

ResolverSpec == ResolverInit /\ [][ResolverNext]_vars

(***************************************************************************)
(* The resolver in February: a scheduler constructed at an instant of a    *)
(* February resolves "0 0 23 L * ?".                                       *)
(***************************************************************************)

\* New() at any instant: every variable but the clock.
Fresh ==
    /\ jobs = <<>>
    /\ jobMap = {}
    /\ job = <<>>
    /\ id = 0
    /\ running = FALSE
    /\ runState = FALSE
    /\ stop = OpenChan
    /\ jobChan = OpenChan
    /\ lock = ""
    /\ timer = [at |-> ZeroTime, st |-> "nil"]
    /\ drivers = EmptyBag
    /\ watchers = 0
    /\ wg = 0
    /\ calls = EmptyBag
    /\ nStops = 0
    /\ waiting = {}
    /\ crashed = FALSE
    /\ log = {}
    /\ started = <<>>
    /\ ret = NoCall

\* A leap year, a common year, a century that is a leap year and one that
\* is not.
FebruaryYears == {2024, 2023, 2000, 2100}

FebruarySeconds == {0, 12 * 3600, 23 * 3600 - 1, 23 * 3600, 23 * 3600 + 1}

FebruaryInstants ==
    {t \in {[d |-> Date(y, 2, 1, 0, 0, 0).d + n, s |-> s] :
                y \in FebruaryYears, n \in 0..28, s \in FebruarySeconds} :
        Civil(t).month = 2}

FebruaryMaxId == 1

\* "0 0 23 L * ?"
LastDayAt23 == Cron(<<"0">>, <<"0">>, <<"2", "3">>, <<"L">>, <<"*">>, <<"?">>)

FebruaryInit == clock \in FebruaryInstants /\ Fresh

FebruaryNext ==
    \/ id < FebruaryMaxId /\ AddJob(LastDayAt23) /\ UNCHANGED ret
    \/ \E k \in 1..FebruaryMaxId : Refeed(k) /\ UNCHANGED ret

FebruarySpec == FebruaryInit /\ [][FebruaryNext]_vars

(***************************************************************************)
(* The parser on its own: one AddJob call on a new scheduler, with an      *)
(* expression that has one field set to a token of interest; ret holds     *)
(* what the call returned.                                                 *)
(***************************************************************************)

\* What AddJob(cron, f) returns, p the outcome of newTrigger: (0, err) on
\* an error (line 808), else (j.id, nil) (line 819).
AddJobReturns(cron, p) ==
    [op |-> "AddJob", cron |-> cron, id |-> IF p.err # "" THEN 0 ELSE id + 1, err |-> p.err]

\* AddJob, its return value observed.
AddJobCall(cron) == AddJob(cron) /\ ret' = AddJobReturns(cron, newTrigger(cron))

\* The expression "0 0 0 * * ?" with field f (1..6) replaced by tok.
ExprWith(f, tok) ==
    Cron(IF f = 1 THEN tok ELSE <<"0">>, IF f = 2 THEN tok ELSE <<"0">>,
         IF f = 3 THEN tok ELSE <<"0">>, IF f = 4 THEN tok ELSE <<"*">>,
         IF f = 5 THEN tok ELSE <<"*">>, IF f = 6 THEN tok ELSE <<"?">>)

\* Words that are neither a number nor an alias of field f: MON is an alias
\* of the week field only, JAN of the month field only.
BadWords(f) == {<<"x">>, IF f = 6 THEN <<"J", "A", "N">> ELSE <<"M", "O", "N">>}

\* The places of field f where a value is expected, filled with w: single
\* value, range bounds, step start and size, list elements, the N of NW.
Places(f, w) ==
    {w, w \o <<"-", "5">>, <<"1", "-">> \o w, <<"0", "-">> \o w, w \o <<"/", "5">>,
     <<"5", "/">> \o w, <<"*", "/">> \o w, <<"1", ",">> \o w, w \o <<",", "1">>}
        \cup (IF f = 4 THEN {w \o <<"W">>} ELSE {})

\* Expressions with a token that is neither a number nor a valid alias.
BadTokenCrons ==
    UNION {{ExprWith(f, tok) : tok \in UNION {Places(f, w) : w \in BadWords(f)}} :
              f \in 1..6}

\* The numbers next to the domain of field f: one above its largest value
\* and, where the domain starts at 1, the 0 below it.
OutOfDomain(f) ==
    {<<<<"6", "0">>, <<"6", "0">>, <<"2", "4">>, <<"3", "2">>, <<"1", "3">>, <<"7">>>>[f]}
        \cup (IF f \in {4, 5} THEN {<<"0">>} ELSE {})

\* Expressions with an out-of-domain value in a place where a value is
\* expected.
OutOfDomainCrons ==
    UNION {{ExprWith(f, tok) : tok \in UNION {Places(f, w) : w \in OutOfDomain(f)}} :
              f \in 1..6}

\* Expressions with a range that runs backwards.
ReversedCrons == {ExprWith(f, <<"5", "-", "3">>) : f \in 1..6}

\* Expressions of every form with the number 2, and with the letters and
\* aliases the fields know.
PlainCrons ==
    UNION {{ExprWith(f, tok) : tok \in Places(f, <<"2">>)} : f \in 1..6}
        \cup {ExprWith(4, <<"L">>), ExprWith(4, <<"L", "W">>), ExprWith(6, <<"6", "L">>),
              ExprWith(6, <<"0", "#", "2">>), ExprWith(6, <<"M", "O", "N">>),
              ExprWith(5, <<"J", "A", "N">>), ExprWith(6, <<"M", "O", "N", "-", "F", "R", "I">>)}

ParserCrons == BadTokenCrons \cup OutOfDomainCrons \cup ReversedCrons \cup PlainCrons

ParserNext == \E cron \in ParserCrons : ret = NoCall /\ AddJobCall(cron)

ParserSpec == Init /\ [][ParserNext]_<<vars, ret>>

(***************************************************************************)
(* The caller's side: AddJob and Remove with what they return and find,    *)
(* on a scheduler whose drivers sleep until the next second; the clock     *)
(* stands still.                                                           *)
(***************************************************************************)

CallMaxId == 3

CallMaxDrivers == 2

\* "0 0 0 * *": five fields.
FiveFields == <<"0", " ", "0", " ", "0", " ", "*", " ", "*">>

\* "1 * * * * ?", an expression with five fields, "60 0 0 * * ?" and
\* "0 0 0 * x ?".
CallCrons == {AtSecondOne, FiveFields, ExprWith(1, <<"6", "0">>), ExprWith(5, <<"x">>)}

\* Remove(rid), with whether it found the id in c.jobMap (line 824).
RemoveCall(rid) ==
    Remove(rid) /\ ret' = [op |-> "Remove", id |-> rid, known |-> rid \in jobMap]

CallNext ==
    \/ \E cron \in CallCrons :
           (id < CallMaxId \/ newTrigger(cron).err # "") /\ AddJobCall(cron)
    \/ AddJobSend /\ UNCHANGED ret
    \/ \E rid \in 1..CallMaxId : RemoveCall(rid)
    \/ RemoveSend /\ UNCHANGED ret
    \/ /\ running \/ Len(started) < MaxStarts
       /\ BagCardinality(drivers) < CallMaxDrivers
       /\ Start
       /\ UNCHANGED ret
    \/ \E d \in BagToSet(drivers) : Sort(d) /\ UNCHANGED ret
    \/ \E d \in BagToSet(drivers) : WakeStop(d) /\ UNCHANGED ret
    \/ BagCardinality(drivers) < CallMaxDrivers /\ WatchReceive /\ UNCHANGED ret

CallSpec == Init /\ [][CallNext]_<<vars, ret>>

(***************************************************************************)
(* Callbacks that panic: two every-second jobs added to a new scheduler,   *)
(* Start, the driver and the clock; a callback returns or panics, and ret  *)
(* holds how the callback that ended last did and when.                    *)
(***************************************************************************)

FaultMaxId == 2

FaultMaxClock == 2

FaultMaxCalls == 3

\* The goroutine of a callback ends, the callback having panicked or not.
FinishCall(c, panics) ==
    Done(c, jobRun(panics)) /\ ret' = [op |-> "run", panics |-> panics, at |-> clock]

FaultNext ==
    \/ ~running /\ id < FaultMaxId /\ AddJob(EverySecond) /\ UNCHANGED ret
    \/ ~running /\ id = FaultMaxId /\ Start /\ UNCHANGED ret
    \/ \E d \in BagToSet(drivers) : Sort(d) /\ UNCHANGED ret
    \/ \E d \in BagToSet(drivers) : WakeTimer(d) /\ UNCHANGED ret
    \/ \E d \in BagToSet(drivers) : Fire(d) /\ UNCHANGED ret
    \/ \E d \in BagToSet(drivers) : wg < FaultMaxCalls /\ Run(d) /\ UNCHANGED ret
    \/ \E c \in BagToSet(calls), panics \in BOOLEAN : FinishCall(c, panics)
    \/ /\ running /\ Before(clock, AddSeconds(StartTime, FaultMaxClock))
       /\ Tick
       /\ UNCHANGED ret

FaultSpec == Init /\ [][FaultNext]_<<vars, ret>>

(***************************************************************************)
(* A job that can never fire: "0 0 0 31W 2 ?" asks for the working day     *)
(* nearest before 31 February, which getLatestWorkDay finds in March and   *)
(* refuses, in every year; trigger.next gives up beyond maxDeep and        *)
(* returns the zero time.  It is added next to an every-second job to a    *)
(* new scheduler, which is then started.                                   *)
(***************************************************************************)

ExhaustMaxId == 2

ExhaustMaxClock == 1

ExhaustMaxCalls == 2

WorkDay31February == Cron(<<"0">>, <<"0">>, <<"0">>, <<"3", "1", "W">>, <<"2">>, <<"?">>)

ExhaustNext ==
    \/ \E cron \in {EverySecond, WorkDay31February} :
           ~running /\ id < ExhaustMaxId /\ AddJob(cron) /\ UNCHANGED ret
    \/ ~running /\ Start /\ UNCHANGED ret
    \/ \E d \in BagToSet(drivers) : Sort(d) /\ UNCHANGED ret
    \/ \E d \in BagToSet(drivers) : WakeTimer(d) /\ UNCHANGED ret
    \/ \E d \in BagToSet(drivers) : Fire(d) /\ UNCHANGED ret
    \/ \E d \in BagToSet(drivers) : wg < ExhaustMaxCalls /\ Run(d) /\ UNCHANGED ret
    \/ \E c \in BagToSet(calls) : Finish(c) /\ UNCHANGED ret
    \/ Before(clock, AddSeconds(StartTime, ExhaustMaxClock)) /\ Tick /\ UNCHANGED ret

ExhaustSpec == Init /\ [][ExhaustNext]_vars

(***************************************************************************)
(* The resolver restarting: a scheduler constructed on 1 January or        *)
(* 1 March of a year resolves "0 0 0 NW 2 ?" for N = 29, 30, 31, the       *)
(* working day nearest before day N of February, which exists in some      *)
(* years only (never for 31); trigger.next restarts month by month and     *)
(* year by year until it finds one or gives up.                            *)
(***************************************************************************)

DepthFirstYear == 2024

DepthYears == 16

DepthMaxId == 1

DepthInstants ==
    {Date(y, m, 1, 0, 0, 0) : y \in DepthFirstYear..(DepthFirstYear + DepthYears), m \in {1, 3}}

\* "0 0 0 29W 2 ?", "0 0 0 30W 2 ?" and "0 0 0 31W 2 ?"
DepthCrons ==
    {Cron(<<"0">>, <<"0">>, <<"0">>, <<"2", "9", "W">>, <<"2">>, <<"?">>),
     Cron(<<"0">>, <<"0">>, <<"0">>, <<"3", "0", "W">>, <<"2">>, <<"?">>),
     WorkDay31February}

DepthInit == clock \in DepthInstants /\ Fresh

DepthNext ==
    \/ \E cron \in DepthCrons : id < DepthMaxId /\ AddJob(cron) /\ UNCHANGED ret
    \/ \E k \in 1..DepthMaxId : Refeed(k) /\ UNCHANGED ret

DepthSpec == DepthInit /\ [][DepthNext]_vars

(***************************************************************************)
(* The job set built before Start: AddJob and Remove in any order on a     *)
(* scheduler not yet started, then Start, the drivers, the callbacks and   *)
(* the clock, with no call after Start.                                    *)
(***************************************************************************)

CreatedMaxId == 3

CreatedMaxClock == 2

CreatedMaxCalls == 2

CreatedNext ==
    \/ \E cron \in SchedulerCrons :
           ~running /\ id < CreatedMaxId /\ AddJob(cron) /\ UNCHANGED ret
    \/ \E rid \in 1..CreatedMaxId : ~running /\ Remove(rid) /\ UNCHANGED ret
    \/ ~running /\ Start /\ UNCHANGED ret
    \/ \E d \in BagToSet(drivers) : Sort(d) /\ UNCHANGED ret
    \/ \E d \in BagToSet(drivers) : WakeTimer(d) /\ UNCHANGED ret
    \/ \E d \in BagToSet(drivers) : WakeStop(d) /\ UNCHANGED ret
    \/ \E d \in BagToSet(drivers) : Fire(d) /\ UNCHANGED ret
    \/ \E d \in BagToSet(drivers) : wg < CreatedMaxCalls /\ Run(d) /\ UNCHANGED ret
    \/ \E c \in BagToSet(calls) : Finish(c) /\ UNCHANGED ret
    \/ /\ running /\ Before(clock, AddSeconds(StartTime, CreatedMaxClock))
       /\ Tick
       /\ UNCHANGED ret

CreatedSpec == Init /\ [][CreatedNext]_vars

(***************************************************************************)
(* The job set emptied and filled again: one job added before Start,       *)
(* Remove on the Running scheduler, and AddJob once the list is empty,     *)
(* with the drivers, the watcher, the callbacks and the clock.             *)
(***************************************************************************)

IdleMaxId == 2

IdleMaxClock == 2

IdleMaxCalls == 2

IdleMaxDrivers == 2

IdleNext ==
    \/ \E cron \in SchedulerCrons :
           /\ IF running THEN Len(jobs) = 0 /\ lock = "" /\ id < IdleMaxId ELSE id = 0
           /\ AddJob(cron)
           /\ UNCHANGED ret
    \/ ~running /\ id = 1 /\ Start /\ UNCHANGED ret
    \/ \E rid \in 1..IdleMaxId : running /\ Remove(rid) /\ UNCHANGED ret
    \/ RemoveSend /\ UNCHANGED ret
    \/ \E d \in BagToSet(drivers) : Sort(d) /\ UNCHANGED ret
    \/ \E d \in BagToSet(drivers) : WakeTimer(d) /\ UNCHANGED ret
    \/ \E d \in BagToSet(drivers) : WakeStop(d) /\ UNCHANGED ret
    \/ \E d \in BagToSet(drivers) : Fire(d) /\ UNCHANGED ret
    \/ \E d \in BagToSet(drivers) : wg < IdleMaxCalls /\ Run(d) /\ UNCHANGED ret
    \/ BagCardinality(drivers) < IdleMaxDrivers /\ WatchReceive /\ UNCHANGED ret
    \/ \E c \in BagToSet(calls) : Finish(c) /\ UNCHANGED ret
    \/ /\ running /\ Before(clock, AddSeconds(StartTime, IdleMaxClock))
       /\ Tick
       /\ UNCHANGED ret

IdleSpec == Init /\ [][IdleNext]_vars

(***************************************************************************)
(* The scheduler stopped and called again: AddJob of one job, Remove,      *)
(* Start and Stop in any order, Start also after Stop, with the drivers,   *)
(* the watcher, the callbacks and the clock.                               *)
(***************************************************************************)

StoppedMaxId == 1

StoppedMaxStarts == 2

StoppedMaxStops == 1

StoppedMaxClock == 1

StoppedMaxCalls == 2

StoppedMaxDrivers == 2

StoppedNext ==
    \/ id < StoppedMaxId /\ AddJob(EverySecond) /\ UNCHANGED ret
    \/ \E rid \in 1..StoppedMaxId : Remove(rid) /\ UNCHANGED ret
    \/ /\ Len(started) < StoppedMaxStarts
       /\ BagCardinality(drivers) < StoppedMaxDrivers
       /\ Start
       /\ UNCHANGED ret
    \/ nStops < StoppedMaxStops /\ Stop /\ UNCHANGED ret
    \/ \E d \in BagToSet(drivers) : Sort(d) /\ UNCHANGED ret
    \/ \E d \in BagToSet(drivers) : WakeTimer(d) /\ UNCHANGED ret
    \/ \E d \in BagToSet(drivers) : WakeStop(d) /\ UNCHANGED ret
    \/ \E d \in BagToSet(drivers) : Fire(d) /\ UNCHANGED ret
    \/ \E d \in BagToSet(drivers) : wg < StoppedMaxCalls /\ Run(d) /\ UNCHANGED ret
    \/ BagCardinality(drivers) < StoppedMaxDrivers /\ WatchReceive /\ UNCHANGED ret
    \/ \E c \in BagToSet(calls) : Finish(c) /\ UNCHANGED ret
    \/ Before(clock, AddSeconds(StartTime, StoppedMaxClock)) /\ Tick /\ UNCHANGED ret

StoppedSpec == Init /\ [][StoppedNext]_vars

(***************************************************************************)
(* The driver waking late: jobs added to a new scheduler, Start, the       *)
(* driver, the callbacks and a clock that may move on while the driver's   *)
(* timer has expired.                                                      *)
(***************************************************************************)

LateMaxId == 2

LateMaxClock == 3

LateMaxCalls == 2

LateNext ==
    \/ \E cron \in SchedulerCrons :
           ~running /\ id < LateMaxId /\ AddJob(cron) /\ UNCHANGED ret
    \/ ~running /\ id > 0 /\ Start /\ UNCHANGED ret
    \/ \E d \in BagToSet(drivers) : Sort(d) /\ UNCHANGED ret
    \/ \E d \in BagToSet(drivers) : WakeTimer(d) /\ UNCHANGED ret
    \/ \E d \in BagToSet(drivers) : Fire(d) /\ UNCHANGED ret
    \/ \E d \in BagToSet(drivers) : wg < LateMaxCalls /\ Run(d) /\ UNCHANGED ret
    \/ \E c \in BagToSet(calls) : Finish(c) /\ UNCHANGED ret
    \/ /\ running /\ Before(clock, AddSeconds(StartTime, LateMaxClock))
       /\ Tick
       /\ UNCHANGED ret
    \/ /\ running /\ Before(clock, AddSeconds(StartTime, LateMaxClock))
       /\ Lag
       /\ UNCHANGED ret

LateSpec == Init /\ [][LateNext]_vars

(***************************************************************************)
(* The teardown: AddJob, Remove and Stop in any order, Start before any    *)
(* Stop on the Running scheduler, with the drivers, the watcher, the       *)
(* callbacks and the clock.  The goroutines are scheduled fairly: a        *)
(* goroutine of the scheduler that has a step to take is run in the end.   *)
(***************************************************************************)

TeardownMaxId == 2

TeardownMaxStops == 1

TeardownMaxClock == 1

TeardownMaxCalls == 2

TeardownMaxDrivers == 2

\* A step of a goroutine of the scheduler that is neither a sort nor a
\* dispatch: a driver, the watcher, a callback, or a caller blocked in its
\* send.
Goroutines ==
    \/ \E d \in BagToSet(drivers) : WakeTimer(d)
    \/ \E d \in BagToSet(drivers) : WakeStop(d)
    \/ \E d \in BagToSet(drivers) : Fire(d)
    \/ BagCardinality(drivers) < TeardownMaxDrivers /\ WatchReceive
    \/ \E c \in BagToSet(calls) : Finish(c)
    \/ AddJobSend
    \/ RemoveSend

\* A driver sorts the list and arms the timer; it can when the lock is free.
Resort == \E d \in BagToSet(drivers) : Sort(d)

CanResort == ~crashed /\ lock = "" /\ \E d \in BagToSet(drivers) : d.pc = "sort"

\* A driver dispatches a job; c.runJob never blocks.
Dispatch == \E d \in BagToSet(drivers) : wg < TeardownMaxCalls /\ Run(d)

CanDispatch ==
    ~crashed /\ wg < TeardownMaxCalls /\ \E d \in BagToSet(drivers) : d.pc = "run"

TeardownNext ==
    \/ id < TeardownMaxId /\ AddJob(EverySecond) /\ UNCHANGED ret
    \/ \E rid \in 1..TeardownMaxId : Remove(rid) /\ UNCHANGED ret
    \/ /\ ~running /\ ~stop.closed
       /\ BagCardinality(drivers) < TeardownMaxDrivers
       /\ Start
       /\ UNCHANGED ret
    \/ nStops < TeardownMaxStops /\ Stop /\ UNCHANGED ret
    \/ Resort /\ UNCHANGED ret
    \/ (\E d \in BagToSet(drivers) : WakeTimer(d)) /\ UNCHANGED ret
    \/ (\E d \in BagToSet(drivers) : WakeStop(d)) /\ UNCHANGED ret
    \/ (\E d \in BagToSet(drivers) : Fire(d)) /\ UNCHANGED ret
    \/ Dispatch /\ UNCHANGED ret
    \/ BagCardinality(drivers) < TeardownMaxDrivers /\ WatchReceive /\ UNCHANGED ret
    \/ (\E c \in BagToSet(calls) : Finish(c)) /\ UNCHANGED ret
    \/ AddJobSend /\ UNCHANGED ret
    \/ RemoveSend /\ UNCHANGED ret
    \/ Before(clock, AddSeconds(StartTime, TeardownMaxClock)) /\ Tick /\ UNCHANGED ret

\* Weak fairness of the goroutines' steps.  WF_vars(Resort) and
\* WF_vars(Dispatch) are written out, with the conditions under which the
\* two actions are enabled.
TeardownSpec ==
    /\ Init /\ [][TeardownNext]_vars
    /\ WF_vars(Goroutines)
    /\ ([]<>~CanResort \/ []<><<Resort>>_vars)
    /\ ([]<>~CanDispatch \/ []<><<Dispatch>>_vars)

\* Job k has been dispatched for instant T.
Dispatched(k, T) == [id |-> k, at |-> T] \in log

\* C1: on a Running scheduler, under any interleaving of AddJob, Remove and
\* the drivers' cycle, a job is dispatched at most once per scheduled
\* instant: no driver dispatches, for the instant it woke for, a job that
\* has been dispatched for that instant already.
C1_AtMostOncePerInstant ==
    [][\A d \in BagToSet(drivers) : Run(d) => ~Dispatched(d.j, d.nextTime)]_vars

\* The instants of the model.
Instants == {AddSeconds(StartTime, n) : n \in 0..MaxClock}

\* Instant T matches the expression of job k: resolving from T yields T.
Matches(k, T) == Equal(next(job[k].t, T, <<>>).time, T)

\* C2: while the scheduler is Running (Stop was never called) and a job
\* stays in the set, the job is dispatched at every instant that matches its
\* expression: every matching instant that has passed since the job was
\* added and the scheduler started has a dispatch of the job.
C2_EveryMatchingInstant ==
    \A k \in jobMap, T \in Instants :
        ( /\ running /\ nStops = 0
          /\ Before(T, clock)
          /\ ~Before(T, job[k].first)
          /\ ~Before(T, started[Len(started)])
          /\ Matches(k, T) )
        => Dispatched(k, T)

\* C3: a job added while the scheduler was Running and a driver slept until
\* the later fire time of another job is dispatched at its own first fire
\* time, unless it is removed or Stop is called: once that time has passed,
\* the job, if still in the set, has a dispatch for it.
C3_AddedJobFiresFirst ==
    \A k \in jobMap :
        (job[k].covered /\ running /\ nStops = 0 /\ Before(job[k].first, clock))
        => Dispatched(k, job[k].first)

\* C4: when a driver has woken on its timer for instant T, every job of the
\* set that was due at T is dispatched in that tick: when the fire loop of
\* the tick ends, every job that was due at the wake and is still in the set
\* has its dispatch for T.
C4_AllDueJobsFire ==
    [][\A d \in BagToSet(drivers) :
           (Fire(d) /\ ~loopCondition(d))
           => \A k \in d.due \cap jobMap : Dispatched(k, d.nextTime)]_vars

\* The completion signal of the n-th Stop call has resolved.
Resolved(n) == n \in 1..nStops /\ n \notin waiting

\* A callback dispatched before the n-th Stop call is still running.
InFlightBefore(n) == \E c \in BagToSet(calls) : c < n

\* C5 as stated: the completion signal of a Stop call resolves only after
\* every callback dispatched before the call has finished, and it does
\* resolve once all of them have finished: the signal is unresolved exactly
\* while such a callback is running.
C5_SignalAsStated == \A n \in 1..nStops : Resolved(n) <=> ~InFlightBefore(n)

\* C5, amended: the completion signal of a Stop call resolves only after
\* every callback dispatched before the call has finished, and it does
\* resolve once no callback at all is running: a callback dispatched after
\* the call holds the signal back as well.
C5_SignalWaitsForAll ==
    \A n \in 1..nStops :
        /\ Resolved(n) => ~InFlightBefore(n)
        /\ ~Resolved(n) => calls # EmptyBag

\* C5's case: Stop was called while a callback was running, and its signal
\* is waiting for it.
C5_Witness == nStops > 0 /\ ~Resolved(nStops) /\ InFlightBefore(nStops)

\* C6: after Stop on a Running scheduler (c.stop is closed), no job is
\* dispatched on a wake that occurs after the stop signal: no driver wakes
\* on its timer and enters the fire loop with a job to dispatch.
C6_NoFireAfterStop ==
    [][\A d \in BagToSet(drivers) : (stop.closed /\ WakeTimer(d)) => Len(jobs) = 0]_vars

\* Remove(k) has returned: the job is out of c.jobMap and no Remove is
\* blocked in its send with the job still in the list.
Returned(k) == k \in 1..id /\ k \notin jobMap /\ ~(lock = "Remove" /\ jobs = <<k>>)

\* C7: after Remove(id) has returned, the job is never dispatched again,
\* whatever the driver was doing when Remove ran.
C7_NoFireAfterRemove ==
    [][\A d \in BagToSet(drivers) : Run(d) => ~Returned(d.j)]_vars

\* C8: when Remove has deleted the only remaining job of a Running
\* scheduler, the sleeping driver is woken and its loop ends; it does not
\* keep sleeping until the stale wake time: once Remove has returned and
\* the list is empty, no driver is asleep in its select.
C8_LastRemoveEndsDriver ==
    (running /\ Len(jobs) = 0 /\ lock = "") => \A d \in BagToSet(drivers) : ~Sleeping(d)

\* C9: for every expression that parses and every instant now, next(E, now)
\* is not earlier than now, or it is the exhaustion sentinel; and for every
\* result r that is not the sentinel, next(E, r + 1 second) is strictly
\* later than r.
C9_NextIsMonotonic ==
    /\ [](\A k \in jobMap :
              Equal(job[k].first, ZeroTime) \/ ~Before(job[k].first, clock))
    /\ [][\A k \in jobMap :
              Refeed(k) => After(job'[k].nextTime, job[k].nextTime)]_vars

\* C10: for "0 0 12 ? * WED" and every instant now that falls on a Monday,
\* next returns 12:00:00 of the Wednesday two days after that Monday.
C10_WednesdayFromMonday ==
    \A k \in jobMap :
        (job[k].t.cron = WedNoon /\ Weekday(clock) = 1)
        => Equal(job[k].first, [d |-> clock.d + 2, s |-> 12 * 3600])

\* The earliest instant not earlier than now that is 09:30:00 on day 1 of a
\* month, c the civil fields of now.
nextHalfPastNineOn1st(now, c) ==
    IF c.day = 1 /\ now.s <= 9 * 3600 + 30 * 60
    THEN [d |-> now.d, s |-> 9 * 3600 + 30 * 60]
    ELSE Date(c.year, c.month + 1, 1, 9, 30, 0)

\* C11: for "0 30 9 1 * ?" and every instant now, next returns the earliest
\* instant not earlier than now that is 09:30:00 on day 1 of a month.
C11_FirstOfMonth ==
    \A k \in jobMap :
        job[k].t.cron = HalfPastNineOn1st
        => Equal(job[k].first, nextHalfPastNineOn1st(clock, Civil(clock)))

\* 23:00:00 on the last day of February of year y under the 4/100/400 rule.
lastOfFebruaryAt23(y) ==
    Date(y, 2, IF (y % 4 = 0 /\ y % 100 # 0) \/ y % 400 = 0 THEN 29 ELSE 28, 23, 0, 0)

\* C12: for "0 0 23 L * ?" and every instant now in February of a year Y
\* that is not later than 23:00:00 on February's last day, next returns
\* 23:00:00 on 29 February when Y is a leap year under the 4/100/400 rule,
\* and 23:00:00 on 28 February otherwise.
C12_LastDayOfFebruary ==
    \A k \in jobMap :
        ( /\ job[k].t.cron = LastDayAt23
          /\ Civil(clock).month = 2
          /\ ~After(clock, lastOfFebruaryAt23(Civil(clock).year)) )
        => Equal(job[k].first, lastOfFebruaryAt23(Civil(clock).year))

\* C12's case: the expression resolved from an instant of February 2100, a
\* century year that is no leap year, to 23:00:00 on the 28th.
C12_Witness ==
    \E k \in jobMap :
        /\ job[k].t.cron = LastDayAt23
        /\ Civil(clock).year = 2100 /\ Civil(clock).month = 2
        /\ Equal(job[k].first, Date(2100, 2, 28, 23, 0, 0))

\* C14: a token that is neither a number nor a valid alias of its field,
\* wherever a value is expected, makes parse return an error: AddJob with
\* such an expression returns an error.
C14_BadTokenIsAnError ==
    (ret.op = "AddJob" /\ ret.cron \in BadTokenCrons) => ret.err # ""

\* The values field f holds lie in lo..hi, with start <= end for a range.
InDomain(f, lo, hi) ==
    IF f.isRange THEN lo <= f.start /\ f.start <= f.end /\ f.end <= hi
    ELSE \A i \in 1..Len(f.values) : lo <= f.values[i] /\ f.values[i] <= hi

\* C15: after every successful parse each field that is not computed holds
\* only values inside its domain (seconds and minutes 0-59, hours 0-23, day
\* of month 1-31, month 1-12, day of week 0-6), with start <= end for
\* ranges; an expression with an out-of-domain value is rejected with an
\* error.
C15_FieldsInDomain ==
    /\ \A k \in jobMap :
           /\ InDomain(job[k].t.sec, 0, 59)
           /\ InDomain(job[k].t.min, 0, 59)
           /\ InDomain(job[k].t.hour, 0, 23)
           /\ job[k].t.day.calculate = NilCalc => InDomain(job[k].t.day, 1, 31)
           /\ InDomain(job[k].t.mon, 1, 12)
           /\ job[k].t.week.calculate = NilCalc => InDomain(job[k].t.week, 0, 6)
    /\ (ret.op = "AddJob" /\ ret.cron \in OutOfDomainCrons) => ret.err # ""

\* C13: if the expression given to AddJob fails parsing or validation,
\* AddJob returns an error with id 0 and leaves the scheduler unchanged: no
\* job is added, the id counter is not advanced and nothing is sent on the
\* channels.
C13_FailedAddJobChangesNothing ==
    [][\A cron \in CallCrons :
           (newTrigger(cron).err # "" /\ AddJobCall(cron))
           => (ret'.id = 0 /\ ret'.err # "" /\ UNCHANGED vars)]_<<vars, ret>>

\* C13's case: AddJob has returned an error on a Running scheduler with a
\* job in its set and a driver asleep.
C13_Witness ==
    /\ ret.op = "AddJob" /\ ret.err # "" /\ ret.id = 0
    /\ running /\ Len(jobs) > 0
    /\ \E d \in BagToSet(drivers) : Sleeping(d)

\* C20: Remove(id) with an id that is not in the job set changes nothing:
\* the job set, the id counter and the channels are unchanged and no driver
\* is woken; a second Remove of the same id is such a call.
C20_UnknownRemoveChangesNothing ==
    [][\A rid \in 1..CallMaxId :
           (rid \notin jobMap /\ RemoveCall(rid)) => UNCHANGED vars]_<<vars, ret>>

\* C20's case: Remove was called with the id of a job removed before, on a
\* Running scheduler with one job left and a driver asleep.
C20_Witness ==
    /\ ret.op = "Remove" /\ ~ret.known /\ ret.id <= id
    /\ running /\ Len(jobs) = 1
    /\ \E d \in BagToSet(drivers) : Sleeping(d)

\* C16: a panic of a job's callback is recovered inside the callback's own
\* task: it does not reach the driver (the program goes on, the driver and
\* the jobs are as they were), the in-flight counter is decremented all the
\* same, and the later occurrences of the job and all other jobs are still
\* dispatched: after a panic, every job has been dispatched for every second
\* that has passed since Start.
C16_PanicIsContained ==
    /\ [][\A c \in BagToSet(calls) :
             FinishCall(c, TRUE)
             => /\ ~crashed' /\ wg' = wg - 1
                /\ UNCHANGED <<drivers, jobs, jobMap, job, timer, stop, jobChan, running,
                               lock, log>>]_<<vars, ret>>
    /\ [](ret.op = "run" /\ ret.panics
          => /\ ~crashed
             /\ \A k \in jobMap, n \in 0..FaultMaxClock :
                    Before(AddSeconds(StartTime, n), clock)
                    => Dispatched(k, AddSeconds(StartTime, n)))

\* C16's case: a callback panicked in the first second, and both jobs have
\* been dispatched for the second after it.
C16_Witness ==
    /\ ret.op = "run" /\ ret.panics /\ Equal(ret.at, StartTime)
    /\ \A k \in 1..FaultMaxId : Dispatched(k, AddSeconds(StartTime, 1))
    /\ ~crashed

\* The resolution of job k was exhausted when it was added: trigger.next
\* returned the zero time.
Exhausted(k) == Equal(job[k].first, ZeroTime)

\* C17: a job whose resolution is exhausted is never dispatched, and it does
\* not delay the other jobs: once the first fire time of another job of a
\* Running scheduler has passed, that job has been dispatched for it.
C17_ExhaustedJobIsIdle ==
    \A k \in jobMap :
        IF Exhausted(k) THEN \A e \in log : e.id # k
        ELSE (running /\ ~Before(job[k].first, started[1]) /\ Before(job[k].first, clock))
             => Dispatched(k, job[k].first)

\* C18: AddJob and Remove may be called in any order before Start; after
\* Start, every job then in the set is dispatched at its next fire time:
\* once that instant has passed, the job has been dispatched for it.
C18_JobsAtStartFire ==
    running => \A k \in jobMap :
                   Before(job[k].first, clock) => Dispatched(k, job[k].first)

\* C19: after Remove has emptied the job set of a Running scheduler, a
\* later AddJob wakes a driver so that the new job is dispatched at its next
\* fire time, however the Remove fell into the driver's loop: the program
\* goes on, and once the first fire time of a job added to the emptied set
\* has passed, the job has been dispatched for it.
C19_AddAfterEmptyFires ==
    /\ ~crashed
    /\ \A k \in jobMap \ {1} :
           Before(job[k].first, clock) => Dispatched(k, job[k].first)

\* C21: the ids successful AddJob calls return are pairwise distinct and
\* strictly increasing in call order: the id counter never goes down, a
\* successful AddJob returns an id above the counter it found and leaves the
\* counter at that id, and neither a failed AddJob nor Remove moves the
\* counter, so that no id is returned twice, removed or not.
C21_IdsIncrease ==
    [][/\ id' >= id
       /\ \A cron \in CallCrons :
              AddJobCall(cron)
              => IF ret'.err = "" THEN ret'.id > id /\ id' = ret'.id /\ ret'.id \notin jobMap
                 ELSE ret'.id = 0 /\ id' = id
       /\ \A rid \in 1..CallMaxId : RemoveCall(rid) => id' = id]_<<vars, ret>>

\* C21's case: AddJob has returned an id after the job of the id before it
\* was removed.
C21_Witness ==
    /\ ret.op = "AddJob" /\ ret.err = "" /\ ret.id >= 2
    /\ ret.id - 1 \notin jobMap

\* C22: Stopped is terminal: once Stop has been called on a Running
\* scheduler (c.stop is closed), no later call makes the scheduler Running
\* again and no job is dispatched any more.
C22_StoppedIsTerminal ==
    /\ [](stop.closed => ~running)
    /\ [][stop.closed => log' = log]_vars

\* C23: at every reachable state at most one driver loop is active: the
\* driver asleep when a job-added signal arrives has ended before the driver
\* started for the signal sorts, so no two drivers sleep or fire at once.
C23_OneDriver == BagCardinality(drivers) <= 1

\* C24: a driver that woke on its timer for instant T dispatches a job only
\* if the job's own next fire time is T, whatever AddJob, Remove or a sort
\* did to the list during the sleep: the job the fire loop hands to runJob,
\* when it is still in the set, has T as its cached fire time.
C24_OnlyDueJobsFire ==
    [][\A d \in BagToSet(drivers) :
           (Run(d) /\ d.j \in DOMAIN job) => Equal(job[d.j].nextTime, d.nextTime)]_vars

\* Value v is one of those field f holds.
Holds(f, v) ==
    IF f.isRange THEN f.start <= v /\ v <= f.end
    ELSE \E i \in 1..Len(f.values) : f.values[i] = v

\* The second, minute, hour, day of month, month and weekday of instant u,
\* whose civil fields are c, match the six fields of trigger t.
FieldsMatch(t, u, c) ==
    /\ Holds(t.sec, c.sec) /\ Holds(t.min, c.min) /\ Holds(t.hour, c.hour)
    /\ Holds(t.day, c.day) /\ Holds(t.mon, c.month) /\ Holds(t.week, Weekday(u))

\* The instants of the day of now and of the day after it at the seconds of
\* day the resolver is fed with.
Nearby(now) == {[d |-> now.d + n, s |-> x] : n \in 0..1, x \in ResolverSeconds}

\* C25: for every parsed expression without computed fields and every
\* instant now, next returns the earliest instant not earlier than now whose
\* second, minute, hour, day of month, month and weekday match the six
\* fields: the result is not before now, its fields match, and no instant
\* from now up to the result, now and the instants near it among them,
\* matches.
C25_EarliestMatch ==
    \A k \in jobMap :
        (job[k].t.day.calculate = NilCalc /\ job[k].t.week.calculate = NilCalc)
        => /\ ~Before(job[k].first, clock)
           /\ FieldsMatch(job[k].t, job[k].first, Civil(job[k].first))
           /\ \A u \in Nearby(clock) \cup {clock} :
                  (~Before(u, clock) /\ Before(u, job[k].first))
                  => ~FieldsMatch(job[k].t, u, Civil(u))

\* C26: every call of AddJob and Remove returns, on a scheduler not started
\* or Running: a call that waits in its send on a channel, holding the
\* lock, has a goroutine that can still take from the channel: a driver
\* that is not waiting for the lock for Remove's send on c.stop, the
\* watcher for AddJob's send on c.jobChan.
C26_CallsReturn ==
    /\ lock = "Remove" => \E d \in BagToSet(drivers) : d.pc # "sort"
    /\ lock = "AddJob" => watchers > 0

\* C27: the driver never reads an element the job list does not have: under
\* every interleaving of Remove with the driver, index i is within the list
\* when the fire loop, having read c.jobs[i] for runJob, reads c.jobs[i]
\* again for next.
C27_IndexInRange ==
    \A d \in BagToSet(drivers) : d.pc = "run" => d.i < Len(jobs)

\* C28: no operation sends on or closes a closed channel: after Stop on a
\* Running scheduler (c.stop is closed) every call of AddJob, Remove and Stop
\* completes without a fault, Remove of the only job included.
C28_NoFaultAfterStop ==
    [][stop.closed
       => /\ AddJob(EverySecond) => ~crashed'
          /\ \A rid \in 1..StoppedMaxId : Remove(rid) => ~crashed'
          /\ Stop => ~crashed']_vars

\* C29: when the driver wakes later than the instant it slept until, the
\* occurrences that lie in the past are skipped: the instant the driver
\* arms its timer for at its next sort is not earlier than the current
\* time.
C29_PastOccurrencesSkipped ==
    [][\A d \in BagToSet(drivers) :
           (Sort(d) /\ Len(jobs) > 0) => ~Before(timer'.at, clock)]_vars

\* C30: job.next(t) returns the cached fire time unchanged when it is
\* strictly after t and otherwise resolves it again from t; over calls with
\* non-decreasing t the cached fire time never decreases: re-fed with the
\* second after its cached fire time, a job's cached fire time does not move
\* back.
C30_CacheNeverDecreases ==
    /\ [](\A k \in jobMap :
              /\ After(job[k].nextTime, clock) => jobNext(job[k], clock) = job[k]
              /\ ~After(job[k].nextTime, clock)
                 => jobNext(job[k], clock) = jobAt(job[k], next(job[k].t, clock, <<>>)))
    /\ [][\A k \in jobMap :
              Refeed(k) => ~Before(job'[k].nextTime, job[k].nextTime)]_vars

\* Years looked ahead for a February with a working day before day n.
DepthHorizon == 12

\* The years from that of now (c its civil fields; from the next one when
\* February is over) in which February has a working day nearest before
\* day n, counted from the year of now.
YearsAhead(c, n) ==
    {j \in (IF c.month <= 2 THEN 0 ELSE 1)..DepthHorizon :
        getLatestWorkDay(c.year + j, 2, n).ok}

\* The restarts "0 0 0 nW 2 ?" needs from now to reach the February of j
\* years ahead: one to leave a February without the day and one to pass
\* from March to the next year's February.
RestartsNeeded(c, j) == IF c.month <= 2 THEN 2 * j ELSE 2 * j - 1

\* The least element of a non-empty set of numbers.
Least(S) == CHOOSE j \in S : \A i \in S : j <= i

\* What next is to return for "0 0 0 nW 2 ?" at now under a guard of
\* maxDeep restarts.
GuardedNext(c, n) ==
    IF YearsAhead(c, n) = {} THEN ZeroTime
    ELSE IF RestartsNeeded(c, Least(YearsAhead(c, n))) > maxDeep THEN ZeroTime
    ELSE getLatestWorkDay(c.year + Least(YearsAhead(c, n)), 2, n).t

\* C31: trigger.next terminates for every parsed trigger and instant: it
\* restarts itself at most maxDeep times and returns the zero time when one
\* more restart would be needed: for "0 0 0 nW 2 ?" it returns the day found
\* when that takes at most maxDeep restarts, and the zero time otherwise.
C31_DepthGuard ==
    \A k \in jobMap :
        Equal(job[k].first, GuardedNext(Civil(clock), job[k].t.day.calculate.a))

\* C31's case: an expression resolved at an instant from which the day is
\* one restart further away than the guard allows.
C31_Witness ==
    \E k \in jobMap :
        /\ YearsAhead(Civil(clock), job[k].t.day.calculate.a) # {}
        /\ RestartsNeeded(Civil(clock),
                          Least(YearsAhead(Civil(clock), job[k].t.day.calculate.a)))
               = maxDeep + 1
        /\ Equal(job[k].first, ZeroTime)

\* C32: dispatch never suspends the driver: a driver about to dispatch a
\* job can do so whatever callbacks are still running, and goes on to the
\* next sort and sleep without waiting for them: while no callback has
\* returned yet, every job has been dispatched for every second that has
\* passed since Start.
C32_DispatchNeverWaits ==
    /\ \A d \in BagToSet(drivers) : d.pc = "run" => ENABLED runJob(d.j)
    /\ ret = NoCall
       => \A k \in jobMap, n \in 0..FaultMaxClock :
              Before(AddSeconds(StartTime, n), clock)
              => Dispatched(k, AddSeconds(StartTime, n))

\* C32's case: no callback has returned, the callbacks of both jobs for the
\* first second are still running, and a job has been dispatched for the
\* second after it.
C32_Witness ==
    /\ ret = NoCall /\ wg = FaultMaxCalls
    /\ \A k \in 1..FaultMaxId : Dispatched(k, StartTime)
    /\ \E k \in 1..FaultMaxId : Dispatched(k, AddSeconds(StartTime, 1))

\* Stop has been called on a Running scheduler.
StopCalled == nStops > 0 /\ ~running /\ started # <<>>

C34_MapMatchesList ==
    lock = ""
    => /\ \A k \in jobMap : Cardinality({i \in 1..Len(jobs) : jobs[i] = k}) = 1
       /\ \A i \in 1..Len(jobs) : jobs[i] \in jobMap

====
